---- MODULE Spec2Model ----
(***************************************************************************)
(* Model of the background search engine of Roblox-Server-Search.          *)
(*                                                                         *)
(* The repository ships the engine twice: the single-file build            *)
(* src/background.js (definitions prefixed Bg_) and the modular build      *)
(* backgroundSearch.js, kept in src/unnamed/part_001 (prefixed Mod_).      *)
(* `variant` selects the build a behaviour is about.                       *)
(*                                                                         *)
(* JavaScript runs one task at a time: an async function runs until it     *)
(* awaits something the host completes later (a fetch, a timer, a storage  *)
(* call).  A call's pc is either such an await (its name starts with a_)   *)
(* or a point inside a synchronous run.  While some call is inside a       *)
(* synchronous run no other call and no new message may take a step.       *)
(* Wall-clock time is not modelled here: a comparison against Date.now()   *)
(* is a choice between its two outcomes.                                   *)
(***************************************************************************)
EXTENDS Integers, Sequences, FiniteSets, TLC

\* ---------------------------------------------------------------- bounds
MaxStarts == 2
MaxResets == 1
MaxFaults == 1
MaxSeqFaults == 5
MaxLen == 12
MaxSize == 5
MaxCallers == 2
MaxWaits == 3
MaxTicks == 3
MaxClicks == 3
MaxOpens == 1
MaxProcessed == 2

\* ---------------------------------------------------- program constants
MAX_CONSECUTIVE_ERRORS == 5
BATCH_SIZE == 50
baseDelay == 1000
maxDelay == 30000
MAX_BACKOFF_TIME == 20000
CACHE_DURATION == 300000
COOLDOWN_TIME == 10
PROGRESS_THROTTLE == 500
LARGE_SERVER == 5000
SMALL_SERVER == 50
TIMEOUT == 15000
MAX_RETRIES == 3
PROGRESS_TIMEOUT == 60000
PROGRESS_CHECK_INTERVAL == 1000

VARIABLES
    variant,                \* "Bg" (src/background.js) or "Mod" (part_001)
    world,                  \* the game's server pages, as the listing API serves them
    isSearching, searchLock, searchId,
    abortController,        \* this.abortController: [aborted |-> its signal's flag]
    totalServersProcessed,
    currentDelay, targetAvatarUrl, totalServersFound, currentBatchProgress,
    lastProgressUpdate,     \* TRUE once this.lastProgressUpdate was assigned
    requests,               \* keys of rateLimiter.requests
    storage,                \* browser.storage.local: the four search entries
    calls,                  \* the activations of startSearch
    resetsDone, resetPending,
    limits,                 \* how many starts and resets this behaviour explores
    faultsLeft,             \* how many failed requests it may still see
    chunker,                \* one call of splitTokensIntoChunks, studied alone
    rateLimiter,            \* a RateLimiter and its callers, with the clock
    popup,                  \* the popup's search button, with the clock
    progress,               \* updateProgress and its callers, with the clock
    api,                    \* a RobloxAPI and the calls of fetchWithRetry, with the clock
    messageHandler,         \* a MessageHandler and the last answer of addMessage
    watchdog                \* the popup's checkSearchProgress, with the clock

objVars == <<isSearching, searchLock, searchId, abortController, totalServersProcessed>>
modVars == <<currentDelay, targetAvatarUrl, totalServersFound, currentBatchProgress,
             lastProgressUpdate, requests>>
auxVars == <<chunker, rateLimiter, popup, progress, api, messageHandler,
            watchdog>>
envVars == <<variant, world, limits, auxVars>>
resetVars == <<resetsDone, resetPending>>
vars == <<variant, world, limits, isSearching, searchLock, searchId, abortController,
          totalServersProcessed, currentDelay, targetAvatarUrl,
          totalServersFound, currentBatchProgress, lastProgressUpdate, requests,
          storage, calls, resetsDone, resetPending, faultsLeft, auxVars>>
engineVars == <<variant, world, limits, objVars, modVars, storage, calls, resetVars,
                faultsLeft>>

Calls == 1..MaxStarts

Min(a, b) == IF a < b THEN a ELSE b

\* An optional value: << >> is null / undefined, <<x>> is the value x.
Null == << >>
Some(x) == <<x>>

\* ------------------------------------------------------------ the world
\* A server record of the listing API, and the image the thumbnail API
\* serves for a player token.
Server(id, playerTokens) == [id |-> id, playerTokens |-> playerTokens]
ThumbnailUrl(token) == 100 + token

Tokens(n, t) == [k \in 1..n |-> t]

\* Two pages; the target (image 101) sits on the second page.
WorldTwoPages == << <<Server(1, <<3>>)>>, <<Server(2, <<3, 1>>), Server(3, <<1>>)>> >>
\* One page whose 51 tokens need two batches; the target is in the second.
WorldTwoBatches == << <<Server(1, Tokens(BATCH_SIZE, 3)), Server(2, <<1>>)>> >>
\* Nobody matches: an empty page, a server without players, a last page.
WorldNoMatch == << << >>, <<Server(1, << >>), Server(2, <<3>>)>>, <<Server(3, <<2>>)>> >>
Worlds == {WorldTwoPages, WorldTwoBatches, WorldNoMatch}
\* One page, one server, nobody on it.
WorldNoPlayers == << <<Server(1, << >>)>> >>
SmallWorlds == {WorldNoPlayers}

\* The runs explored, in four families: searches started while others run
\* (requests never fail); searches started one after another or while others
\* run, with a failed request and no reset; one search that is reset and sees
\* a failed request; one search that sees up to MaxSeqFaults failed requests.
Families ==
    {[starts |-> MaxStarts, resets |-> MaxResets, faults |-> 0, worlds |-> SmallWorlds],
     [starts |-> MaxStarts, resets |-> 0, faults |-> MaxFaults, worlds |-> SmallWorlds],
     [starts |-> 1, resets |-> MaxResets, faults |-> MaxFaults, worlds |-> Worlds],
     [starts |-> 1, resets |-> 0, faults |-> MaxSeqFaults, worlds |-> Worlds]}

AvatarUrls == {101}

\* The serverSizeMoreThan5 argument of startSearch: the popup passes
\* maxPlayers > 5 of the game, which holds of a game that has a server with
\* more than 5 players on it.
serverSizeMoreThan5 ==
    \E k \in 1..Len(world) : \E n \in 1..Len(world[k]) :
        Len(world[k][n].playerTokens) > 5

PresenceGameId == 9

\* A listing whose pages carry no cursor: every search ends after page one.
NextPageCursor_Dropped(page) == 0

\* The page the listing API serves for a cursor: cursor 0 is the empty
\* string (first page), page k carries nextPageCursor k, the last page none.
PageOf(cursor) == cursor + 1
NextPageCursor(page) == IF page < Len(world) THEN page ELSE 0
PageData(page) == world[page]

RECURSIVE SumLen(_, _)
SumLen(pages, k) == IF k = 0 THEN 0 ELSE Len(pages[k]) + SumLen(pages, k - 1)

\* ------------------------------------------------------------- results
Found(gameId, searchType) ==
    [found |-> TRUE, cancelled |-> FALSE, gameId |-> gameId, searchType |-> searchType]
NotFound == [found |-> FALSE, cancelled |-> FALSE, gameId |-> 0, searchType |-> ""]
Cancelled == [found |-> FALSE, cancelled |-> TRUE, gameId |-> 0, searchType |-> ""]

AlreadyRunning == "Search already in progress"

\* The locals of one activation; cooldownTime is the interval the search last
\* waited with before a request, until the request is answered.  Not code:
\* cancelSignalled, cancelledAt
\* (the sleep of src/background.js the call was suspended in when
\* cancellation was signalled, if it was in one), pageFault,
\* failures (page requests failed in a row otherwise than by a 429),
\* throttles (429 answers in a row) and batchFailures (requests for the
\* current batch that failed otherwise than by a rate limit) remember what
\* happened to it; sent is the listener's reply once it was given.
InitCall ==
    [pc |-> "idle", accepted |-> FALSE, reply |-> "", avatarUrl |-> 0,
     currentSearchId |-> 0, signal |-> "none", cursor |-> 0, page |-> 0,
     allTokens |-> << >>, totalServersChecked |-> 0, consecutiveErrors |-> 0,
     i |-> 0, retries |-> 0, ret |-> "", result |-> Null, error |-> "",
     response |-> "", cancelSignalled |-> FALSE, pageFault |-> FALSE,
     failures |-> 0, throttles |-> 0, sent |-> Null, cancelledAt |-> "",
     batchFailures |-> 0, cooldownTime |-> 0]

\* The awaits of both builds: a call at one of these is suspended.
AwaitPcs ==
    {"a_initState", "a_ssState", "a_cooldown", "a_fetchPage", "a_errorsSleep",
     "a_pageStore", "a_batchPre", "a_fetchBatch", "a_retrySleep", "a_foundStore",
     "a_nfStore", "a_abortStore", "a_ssErrStore", "a_finalStore", "a_storeError",
     "a_remove", "a_presence", "a_storePresence", "a_storeState", "a_progress",
     "a_waitServers", "a_errSleep", "a_waitTokens", "a_batchSleep", "a_storeResult"}

InFlight(c) == calls[c].accepted /\ calls[c].pc # "done"
Runnable(c) == calls[c].pc \notin (AwaitPcs \cup {"idle", "done"})
Quiescent == \A c \in Calls : ~Runnable(c)
At(c, label) == calls[c].pc = label /\ (label \in AwaitPcs => Quiescent)

\* An AbortController is known by what can still happen to its signal.  The
\* signal a call handed to its outstanding fetch is "live" while it belongs
\* to this.abortController, "detached" once that field holds another
\* controller, and "aborted" after abort().
NewAbortController == [aborted |-> FALSE]
Aborted == abortController.aborted
Signal == IF Aborted THEN "aborted" ELSE "live"

\* this.abortController.abort(), seen from the outstanding fetches.
Abort(cs) ==
    [c \in DOMAIN cs |->
        IF cs[c].signal = "live" THEN [cs[c] EXCEPT !.signal = "aborted"] ELSE cs[c]]

\* this.abortController = new AbortController(), seen from them.
Detach(cs) ==
    [c \in DOMAIN cs |->
        IF cs[c].signal = "live" THEN [cs[c] EXCEPT !.signal = "detached"] ELSE cs[c]]

Go(c, r) == calls' = [calls EXCEPT ![c] = r]

\* The outstanding fetch of the call has settled.
Answered(l, o) == [l EXCEPT !.signal = "none", !.response = o, !.cooldownTime = 0]

\* browser.storage.local.set(upd): the named entries are replaced.
StorageSet(upd) ==
    storage' = [k \in DOMAIN storage |-> IF k \in DOMAIN upd THEN upd[k] ELSE storage[k]]

\* ---------------------------------------------------------- pure helpers
RECURSIVE SplitFrom(_, _, _, _)
SplitFrom(array, size, i, chunks) ==
    IF i < Len(array)
    THEN SplitFrom(array, size, i + size,
                   Append(chunks, SubSeq(array, i + 1, Min(i + size, Len(array)))))
    ELSE chunks

\* A split that hands the whole array back as one chunk.
splitTokensIntoChunks_Whole(array, size) ==
    IF Len(array) = 0 THEN << >> ELSE <<array>>

\* splitTokensIntoChunks (lines 455-461; part_001 lines 382-388).
splitTokensIntoChunks(array, size) == SplitFrom(array, size, 0, << >>)

\* Request units that carry the player token where the server id belongs.
ServerTokens_ByToken(server) ==
    [k \in 1..Len(server.playerTokens) |->
        [requestId |-> server.playerTokens[k], token |-> server.playerTokens[k]]]

\* The request units built from one server record.
ServerTokens(server) ==
    [k \in 1..Len(server.playerTokens) |->
        [requestId |-> server.id, token |-> server.playerTokens[k]]]

RECURSIVE PageTokens(_, _)
PageTokens(data, k) ==
    IF k = 0 THEN << >> ELSE PageTokens(data, k - 1) \o ServerTokens(data[k])

\* data.data of a successful batch response: one entry per request unit.
BatchData(chunk) ==
    [k \in 1..Len(chunk) |->
        [requestId |-> chunk[k].requestId, imageUrl |-> ThumbnailUrl(chunk[k].token)]]

\* find() comparing the request id, not the image, with the wanted URL.
FindMatch_ByRequestId(data, url) ==
    LET hits == {k \in 1..Len(data) : data[k].requestId = url}
    IN  IF hits = {} THEN Null
        ELSE Some(data[CHOOSE k \in hits : \A j \in hits : k <= j])

\* Array.prototype.find: the first entry with the wanted image, or none.
FindMatch(data, url) ==
    LET hits == {k \in 1..Len(data) : data[k].imageUrl = url}
    IN  IF hits = {} THEN Null
        ELSE Some(data[CHOOSE k \in hits : \A j \in hits : k <= j])

\* The parts studied alone, before anything was asked of them.
IdleChunker == [array |-> << >>, size |-> BATCH_SIZE, chunks |-> Null]

\* The fields after construction (lines 143-153; part_001 lines 37-53).
EngineIdle ==
    /\ isSearching = FALSE
    /\ searchLock = FALSE
    /\ searchId = 0
    /\ abortController = NewAbortController
    /\ totalServersProcessed = 0
    /\ currentDelay = baseDelay
    /\ targetAvatarUrl = 0
    /\ totalServersFound = 0
    /\ currentBatchProgress = 0
    /\ lastProgressUpdate = FALSE
    /\ requests = {}
    /\ storage = [searchState |-> Null, searchResult |-> Null, searchError |-> Null,
                  searchProgress |-> Null]
    /\ calls = [c \in Calls |-> InitCall]
    /\ resetsDone = 0
    /\ resetPending = FALSE

\* The search engine when a part is studied alone: nothing is started.
EngineUnused ==
    /\ variant = "Bg"
    /\ limits = [starts |-> 0, resets |-> 0, faults |-> 0, worlds |-> SmallWorlds]
    /\ world = WorldNoPlayers
    /\ faultsLeft = 0
    /\ EngineIdle

Init ==
    /\ variant \in {"Bg", "Mod"}
    /\ limits \in Families
    /\ world \in limits.worlds
    /\ faultsLeft = limits.faults
    /\ EngineIdle
    /\ chunker = IdleChunker
    /\ rateLimiter = Null
    /\ popup = Null
    /\ progress = Null
    /\ api = Null
    /\ messageHandler = Null
    /\ watchdog = Null

\* What startSearch resolves with when it refuses (line 176; part_001 line 85).
Refusal == [error |-> AlreadyRunning]

\* The reply of the 'startSearch' message listener to a settled startSearch:
\* `how` tells whether the promise was fulfilled or rejected, `value` is the
\* value it was fulfilled with or the message of the error.
Bg_onMessage(how, value) ==
    IF how = "threw" THEN [error |-> value] ELSE [success |-> TRUE]

Mod_onMessage(how, value) ==
    IF how = "threw" THEN [error |-> value] ELSE [success |-> TRUE, result |-> value]

onMessage(how, value) ==
    IF variant = "Bg" THEN Bg_onMessage(how, value) ELSE Mod_onMessage(how, value)

\* startSearch has returned or thrown and the listener has replied: the
\* activation is gone, what is kept is how it ended, the reply that was sent
\* and the id the search ran under.
Returned(l, how) ==
    [InitCall EXCEPT !.pc = "done", !.accepted = TRUE, !.reply = how,
                     !.currentSearchId = l.currentSearchId,
                     !.sent = Some(onMessage(how, IF how = "threw" THEN l.error
                                                  ELSE l.result[1]))]

\* ------------------------------------------------------- src/background.js

\* A refusal that also clears the stored search state.
Rejected_ClearingState(c) ==
    /\ Go(c, [calls[c] EXCEPT !.pc = "done", !.reply = AlreadyRunning,
                              !.sent = Some(onMessage("returned", Refusal))])
    /\ StorageSet([searchState |-> Null])
    /\ UNCHANGED <<envVars, objVars, modVars, resetVars, faultsLeft>>

\* startSearch, lines 175-177: the call is refused and nothing else happens.
Rejected(c) ==
    /\ Go(c, [calls[c] EXCEPT !.pc = "done", !.reply = AlreadyRunning,
                              !.sent = Some(onMessage("returned", Refusal))])
    /\ UNCHANGED <<envVars, objVars, modVars, storage, resetVars, faultsLeft>>

NextToStart(c) ==
    /\ Quiescent
    /\ c <= limits.starts
    /\ calls[c].pc = "idle"
    /\ \A d \in Calls : d < c => calls[d].pc # "idle"

\* A start refused on isSearching, which resetSearchState clears, instead of
\* on the lock.
Bg_startSearch_refused_isSearching == isSearching

\* The test that refuses a start (line 175).
Bg_startSearch_refused == searchLock

\* A start that leaves the id as it is.
Bg_nextSearchId_Same == searchId

\* this.searchId++ (line 182).
Bg_nextSearchId == searchId + 1

Bg_startSearch(c, avatarUrl) ==
    /\ variant = "Bg"
    /\ NextToStart(c)
    /\ IF Bg_startSearch_refused
       THEN Rejected(c)
       ELSE /\ searchLock' = TRUE
            /\ isSearching' = TRUE
            /\ searchId' = Bg_nextSearchId
            /\ totalServersProcessed' = 0
            /\ abortController' = NewAbortController
            /\ StorageSet([searchState |-> Some([id |-> Bg_nextSearchId, isSearching |-> TRUE]),
                           searchResult |-> Null, searchError |-> Null])
            /\ calls' = [Detach(calls) EXCEPT ![c] =
                            [@ EXCEPT !.pc = "a_initState", !.accepted = TRUE,
                                      !.avatarUrl = avatarUrl,
                                      !.currentSearchId = Bg_nextSearchId]]
            /\ UNCHANGED <<envVars, modVars, resetVars, faultsLeft>>

\* A finally block that clears isSearching and keeps the lock.
Bg_finally_KeepingLock ==
    /\ isSearching' = FALSE
    /\ UNCHANGED searchLock

\* The finally block of startSearch.
Bg_finally ==
    /\ searchLock' = FALSE
    /\ isSearching' = FALSE

\* The awaits at which the outcome of the search is already decided: only
\* storage writes and the return are left.
DecidedPcs ==
    {"a_foundStore", "a_nfStore", "a_abortStore", "a_ssErrStore", "a_finalStore",
     "a_storeError", "a_storePresence", "a_storeResult"}

\* The awaits of startSearch before it calls searchServers.
PreludePcs == {"a_remove", "a_presence", "a_storeState", "a_initState"}

\* Not code: remembers, on every search that is inside searchServers with
\* its outcome still open, that cancellation was signalled while it ran.
CancelSignalled(cs) ==
    [c \in DOMAIN cs |->
        IF cs[c].accepted /\ cs[c].pc \notin ({"done"} \cup PreludePcs \cup DecidedPcs)
        THEN [cs[c] EXCEPT !.cancelSignalled = TRUE,
                          !.cancelledAt =
                              IF cs[c].pc \in {"a_cooldown", "a_errorsSleep", "a_retrySleep"}
                              THEN cs[c].pc ELSE @]
        ELSE cs[c]]

\* A reset that aborts and clears whether or not a search runs.
Bg_resetSearchState_Unconditional ==
    /\ variant = "Bg"
    /\ Quiescent
    /\ resetsDone < limits.resets
    /\ resetsDone' = resetsDone + 1
    /\ abortController' = NewAbortController
    /\ isSearching' = FALSE
    /\ totalServersProcessed' = 0
    /\ StorageSet([searchState |-> Null, searchResult |-> Null,
                   searchError |-> Null, searchProgress |-> Null])
    /\ resetPending' = TRUE
    /\ calls' = Detach(Abort(CancelSignalled(calls)))
    /\ UNCHANGED <<searchLock, searchId>>
    /\ UNCHANGED <<envVars, modVars, faultsLeft>>

\* resetSearchState (lines 155-171) up to its await.
Bg_resetSearchState ==
    /\ variant = "Bg"
    /\ Quiescent
    /\ resetsDone < limits.resets
    /\ resetsDone' = resetsDone + 1
    /\ IF isSearching
       THEN /\ abortController' = NewAbortController
            /\ isSearching' = FALSE
            /\ totalServersProcessed' = 0
            /\ StorageSet([searchState |-> Null, searchResult |-> Null,
                           searchError |-> Null, searchProgress |-> Null])
            /\ resetPending' = TRUE
            /\ calls' = Detach(Abort(CancelSignalled(calls)))
            /\ UNCHANGED <<searchLock, searchId>>
       ELSE UNCHANGED <<objVars, storage, resetPending, calls>>
    /\ UNCHANGED <<envVars, modVars, faultsLeft>>

\* The storage write awaited by resetSearchState completes.
ResetCompletes ==
    /\ Quiescent
    /\ resetPending
    /\ resetPending' = FALSE
    /\ UNCHANGED <<envVars, objVars, modVars, storage, calls, resetsDone, faultsLeft>>

\* searchServers up to its first await (lines 237-250).
Bg_searchServers_enter(c) ==
    /\ variant = "Bg"
    /\ At(c, "a_initState")
    /\ StorageSet([searchState |-> Some([id |-> calls[c].currentSearchId, isSearching |-> TRUE])])
    /\ Go(c, [calls[c] EXCEPT !.pc = "a_ssState", !.cursor = 0, !.allTokens = << >>,
                              !.totalServersChecked = 0])
    /\ UNCHANGED <<envVars, objVars, modVars, resetVars, faultsLeft>>

\* An await that completes and leaves only the program counter changed.
Bg_resume(c) ==
    /\ variant = "Bg"
    /\ \/ At(c, "a_ssState") /\ Go(c, [calls[c] EXCEPT !.pc = "loopTop"])
       \/ At(c, "a_errorsSleep") /\ Go(c, [calls[c] EXCEPT !.pc = "while"])
       \/ At(c, "a_retrySleep")
            /\ Go(c, [calls[c] EXCEPT !.pc = "retryLoop", !.retries = @ - 1])
       \/ At(c, "a_nfStore")
            /\ Go(c, [calls[c] EXCEPT !.pc = "ssReturn", !.result = Some(NotFound)])
       \/ At(c, "a_abortStore")
            /\ Go(c, [calls[c] EXCEPT !.pc = "ssReturn", !.result = Some(Cancelled)])
       \/ At(c, "a_foundStore") /\ Go(c, [calls[c] EXCEPT !.pc = "ssReturn"])
    /\ UNCHANGED <<envVars, objVars, modVars, storage, resetVars, faultsLeft>>

\* The top of the do-while body (lines 253-279).
Bg_searchServers_loopTop(c) ==
    /\ variant = "Bg"
    /\ At(c, "loopTop")
    /\ IF searchId # calls[c].currentSearchId \/ Aborted
       THEN Go(c, [calls[c] EXCEPT !.pc = "ssReturn", !.result = Some(Cancelled)])
       ELSE IF calls[c].cursor # 0
            THEN Go(c, [calls[c] EXCEPT !.pc = "a_cooldown",
                          !.cooldownTime = IF serverSizeMoreThan5 THEN LARGE_SERVER
                                           ELSE SMALL_SERVER])
            ELSE Go(c, [calls[c] EXCEPT !.pc = "a_fetchPage", !.signal = Signal])
    /\ UNCHANGED <<envVars, objVars, modVars, storage, resetVars, faultsLeft>>

\* sleep(cooldownTime) is over, by its timer or by abort: the page is fetched.
Bg_searchServers_fetch(c) ==
    /\ variant = "Bg"
    /\ At(c, "a_cooldown")
    /\ Go(c, [calls[c] EXCEPT !.pc = "a_fetchPage", !.signal = Signal])
    /\ UNCHANGED <<envVars, objVars, modVars, storage, resetVars, faultsLeft>>

PageOutcomes == {"ok", "429", "http", "errors", "badjson"}

PageErrorMessage(o) ==
    IF o = "429" THEN "Server fetch failed: 429"
    ELSE IF o = "http" THEN "Server fetch failed: 500"
    ELSE "Unexpected token in JSON"

TakeOutcome(o) ==
    /\ o = "ok" \/ faultsLeft > 0
    /\ faultsLeft' = IF o = "ok" THEN faultsLeft ELSE faultsLeft - 1

\* The page fetch rejects with AbortError (lines 373-383).
Bg_searchServers_aborted(c) ==
    /\ variant = "Bg"
    /\ At(c, "a_fetchPage")
    /\ calls[c].signal = "aborted"
    /\ StorageSet([searchState |-> Null, searchResult |-> Some(Cancelled)])
    /\ Go(c, [Answered(calls[c], "abort") EXCEPT !.pc = "a_abortStore", !.pageFault = TRUE])
    /\ UNCHANGED <<envVars, objVars, modVars, resetVars, faultsLeft>>

\* The page fetch is answered (lines 281-310, 385-392).
Bg_searchServers_response(c, o) ==
    /\ variant = "Bg"
    /\ At(c, "a_fetchPage")
    /\ calls[c].signal # "aborted"
    /\ TakeOutcome(o)
    /\ CASE o = "ok" ->
              LET page == PageOf(calls[c].cursor)
                  n == Len(PageData(page))
              IN  /\ totalServersProcessed' = totalServersProcessed + n
                  /\ StorageSet(
                        [searchState |-> Some([id |-> calls[c].currentSearchId,
                                               isSearching |-> TRUE]),
                         searchProgress |-> Some(
                            [searchId |-> calls[c].currentSearchId,
                             serversChecked |-> calls[c].totalServersChecked + n,
                             currentBatch |-> Null, totalBatches |-> Null])])
                  /\ Go(c, [Answered(calls[c], o) EXCEPT !.pc = "a_pageStore", !.page = page,
                               !.totalServersChecked = @ + n])
         [] o = "errors" ->
              /\ Go(c, [Answered(calls[c], o) EXCEPT !.pc = "a_errorsSleep", !.pageFault = TRUE])
              /\ UNCHANGED <<totalServersProcessed, storage>>
         [] OTHER ->
              /\ StorageSet([searchState |-> Null,
                             searchError |-> Some(PageErrorMessage(o))])
              /\ Go(c, [Answered(calls[c], o) EXCEPT !.pc = "a_ssErrStore", !.pageFault = TRUE,
                                        !.error = PageErrorMessage(o)])
              /\ UNCHANGED totalServersProcessed
    /\ UNCHANGED <<envVars, isSearching, searchLock, searchId, abortController,
                   modVars, resetVars>>

\* The servers of the page are turned into request units (lines 314-358).
Bg_searchServers_collect(c) ==
    /\ variant = "Bg"
    /\ At(c, "a_pageStore")
    /\ LET data == PageData(calls[c].page)
           tokens == PageTokens(data, Len(data))
       IN  IF Len(data) > 0 /\ (Aborted \/ searchId # calls[c].currentSearchId)
           THEN Go(c, [calls[c] EXCEPT !.pc = "ssReturn", !.result = Some(Cancelled)])
           ELSE IF Len(tokens) > 0
                THEN Go(c, [calls[c] EXCEPT !.pc = "batchLoop", !.allTokens = @ \o tokens,
                                            !.i = 0])
                ELSE Go(c, [calls[c] EXCEPT !.pc = "while", !.allTokens = << >>,
                               !.cursor = NextPageCursor(calls[c].page)])
    /\ UNCHANGED <<envVars, objVars, modVars, storage, resetVars, faultsLeft>>

\* A page change that keeps the request units of the page before.
NextPage_KeepingTokens(l) ==
    [l EXCEPT !.pc = "while", !.cursor = NextPageCursor(l.page),
              !.i = 0, !.retries = 0, !.response = "", !.batchFailures = 0]

\* checkTokenBatch returned null: lines 356-357.  Its locals are gone.
NextPage(l) ==
    [l EXCEPT !.pc = "while", !.cursor = NextPageCursor(l.page), !.allTokens = << >>,
              !.i = 0, !.retries = 0, !.response = "", !.batchFailures = 0]

\* The head of the for loop of checkTokenBatch (lines 400-408, 452).
Bg_checkTokenBatch_loop(c) ==
    /\ variant = "Bg"
    /\ At(c, "batchLoop")
    /\ LET chunkedTokens == splitTokensIntoChunks(calls[c].allTokens, BATCH_SIZE)
       IN  IF calls[c].i >= Len(chunkedTokens) \/ Aborted
           THEN Go(c, NextPage(calls[c]))
           ELSE Go(c, [calls[c] EXCEPT !.pc = "retryLoop",
                                       !.retries = MAX_CONSECUTIVE_ERRORS])
    /\ UNCHANGED <<envVars, objVars, modVars, storage, resetVars, faultsLeft>>

\* while (retries > 0) and the sleep before the request (lines 409-411).
Bg_checkTokenBatch_retry(c) ==
    /\ variant = "Bg"
    /\ At(c, "retryLoop")
    /\ IF calls[c].retries > 0
       THEN Go(c, [calls[c] EXCEPT !.pc = "a_batchPre"])
       ELSE Go(c, [calls[c] EXCEPT !.pc = "batchLoop", !.i = @ + 1,
                                   !.batchFailures = 0])
    /\ UNCHANGED <<envVars, objVars, modVars, storage, resetVars, faultsLeft>>

Bg_checkTokenBatch_fetch(c) ==
    /\ variant = "Bg"
    /\ At(c, "a_batchPre")
    /\ Go(c, [calls[c] EXCEPT !.pc = "a_fetchBatch", !.signal = Signal])
    /\ UNCHANGED <<envVars, objVars, modVars, storage, resetVars, faultsLeft>>

BatchOutcomes == {"ok", "429", "http", "ratelimit", "errors"}

\* The batch request rejects with AbortError (lines 443-445).
Bg_checkTokenBatch_aborted(c) ==
    /\ variant = "Bg"
    /\ At(c, "a_fetchBatch")
    /\ calls[c].signal = "aborted"
    /\ Go(c, NextPage(Answered(calls[c], "abort")))
    /\ UNCHANGED <<envVars, objVars, modVars, storage, resetVars, faultsLeft>>

\* The batch request is answered (lines 420-449, 334-353).
Bg_checkTokenBatch_response(c, o) ==
    /\ variant = "Bg"
    /\ At(c, "a_fetchBatch")
    /\ calls[c].signal # "aborted"
    /\ TakeOutcome(o)
    /\ LET chunk == splitTokensIntoChunks(calls[c].allTokens, BATCH_SIZE)[calls[c].i + 1]
           match == FindMatch(BatchData(chunk), calls[c].avatarUrl)
       IN  CASE o = "ok" /\ match # Null ->
                  /\ StorageSet([searchState |-> Null,
                                 searchResult |-> Some(Found(match[1].requestId, ""))])
                  /\ Go(c, [Answered(calls[c], o) EXCEPT !.pc = "a_foundStore",
                                            !.result = Some(Found(match[1].requestId, ""))])
             [] o \in {"ok", "errors"} /\ ~(o = "ok" /\ match # Null) ->
                  /\ Go(c, [Answered(calls[c], o) EXCEPT !.pc = "batchLoop", !.i = @ + 1,
                                            !.batchFailures = 0])
                  /\ UNCHANGED storage
             [] OTHER ->
                  /\ Go(c, [Answered(calls[c], o) EXCEPT !.pc = "a_retrySleep",
                               !.batchFailures = IF o = "http" THEN @ + 1 ELSE @])
                  /\ UNCHANGED storage
    /\ UNCHANGED <<envVars, objVars, modVars, resetVars>>

\* The do-while condition and the code after the loop (lines 359-371).
Bg_searchServers_while(c) ==
    /\ variant = "Bg"
    /\ At(c, "while")
    /\ IF calls[c].cursor # 0 /\ ~Aborted /\ searchId = calls[c].currentSearchId
       THEN /\ Go(c, [calls[c] EXCEPT !.pc = "loopTop"])
            /\ UNCHANGED storage
       ELSE /\ StorageSet([searchState |-> Null, searchResult |-> Some(NotFound)])
            /\ Go(c, [calls[c] EXCEPT !.pc = "a_nfStore"])
    /\ UNCHANGED <<envVars, objVars, modVars, resetVars, faultsLeft>>

\* searchServers returned to startSearch (lines 211-222, 231-234).
Bg_startSearch_result(c) ==
    /\ variant = "Bg"
    /\ At(c, "ssReturn")
    /\ IF searchId = calls[c].currentSearchId
       THEN /\ StorageSet([searchState |-> Null, searchResult |-> calls[c].result])
            /\ Go(c, [calls[c] EXCEPT !.pc = "a_finalStore"])
            /\ UNCHANGED <<isSearching, searchLock>>
       ELSE /\ Go(c, Returned(calls[c], "returned"))
            /\ Bg_finally
            /\ UNCHANGED storage
    /\ UNCHANGED <<envVars, searchId, abortController,
                   totalServersProcessed, modVars, resetVars, faultsLeft>>

Bg_startSearch_return(c) ==
    /\ variant = "Bg"
    /\ At(c, "a_finalStore")
    /\ Go(c, Returned(calls[c], "returned"))
    /\ Bg_finally
    /\ UNCHANGED <<envVars, searchId, abortController,
                   totalServersProcessed, modVars, storage, resetVars, faultsLeft>>

\* A catch block that takes the error for the end of the listing.
Bg_startSearch_catch_Swallowing(c) ==
    /\ variant = "Bg"
    /\ At(c, "a_ssErrStore")
    /\ StorageSet([searchResult |-> Some(NotFound), searchState |-> Null])
    /\ Go(c, [calls[c] EXCEPT !.pc = "a_finalStore", !.result = Some(NotFound)])
    /\ UNCHANGED <<envVars, objVars, modVars, resetVars, faultsLeft>>

\* searchServers threw: the catch block of startSearch (lines 223-230).
Bg_startSearch_catch(c) ==
    /\ variant = "Bg"
    /\ At(c, "a_ssErrStore")
    /\ StorageSet([searchError |-> Some(calls[c].error), searchState |-> Null])
    /\ Go(c, [calls[c] EXCEPT !.pc = "a_storeError"])
    /\ UNCHANGED <<envVars, objVars, modVars, resetVars, faultsLeft>>

Bg_startSearch_throw(c) ==
    /\ variant = "Bg"
    /\ At(c, "a_storeError")
    /\ Go(c, Returned(calls[c], "threw"))
    /\ Bg_finally
    /\ UNCHANGED <<envVars, searchId, abortController,
                   totalServersProcessed, modVars, storage, resetVars, faultsLeft>>

BgNext ==
    \/ \E c \in Calls, u \in AvatarUrls : Bg_startSearch(c, u)
    \/ Bg_resetSearchState
    \/ \E c \in Calls :
        \/ Bg_searchServers_enter(c)
        \/ Bg_resume(c)
        \/ Bg_searchServers_loopTop(c)
        \/ Bg_searchServers_fetch(c)
        \/ Bg_searchServers_aborted(c)
        \/ \E o \in PageOutcomes : Bg_searchServers_response(c, o)
        \/ Bg_searchServers_collect(c)
        \/ Bg_checkTokenBatch_loop(c)
        \/ Bg_checkTokenBatch_retry(c)
        \/ Bg_checkTokenBatch_fetch(c)
        \/ Bg_checkTokenBatch_aborted(c)
        \/ \E o \in BatchOutcomes : Bg_checkTokenBatch_response(c, o)
        \/ Bg_searchServers_while(c)
        \/ Bg_startSearch_result(c)
        \/ Bg_startSearch_return(c)
        \/ Bg_startSearch_catch(c)
        \/ Bg_startSearch_throw(c)

\* ------------------------------------------- src/unnamed/part_001 (modular)

\* startSearch up to its first await (lines 83-89).
Mod_startSearch(c, avatarUrl) ==
    /\ variant = "Mod"
    /\ NextToStart(c)
    /\ IF isSearching
       THEN Rejected(c)
       ELSE /\ Go(c, [calls[c] EXCEPT !.pc = "a_remove", !.accepted = TRUE,
                                      !.avatarUrl = avatarUrl])
            /\ UNCHANGED <<envVars, objVars, modVars, storage, resetVars, faultsLeft>>

\* After storage.remove: the fields are set and presence is asked (lines 90-108).
Mod_startSearch_begin(c) ==
    /\ variant = "Mod"
    /\ At(c, "a_remove")
    /\ isSearching' = TRUE
    /\ targetAvatarUrl' = calls[c].avatarUrl
    /\ totalServersFound' = 0
    /\ currentBatchProgress' = 0
    /\ abortController' = NewAbortController
    /\ calls' = [Detach(calls) EXCEPT ![c] = [@ EXCEPT !.pc = "a_presence"]]
    /\ UNCHANGED <<envVars, searchLock, searchId, totalServersProcessed,
                   currentDelay, lastProgressUpdate, requests, storage, resetVars,
                   faultsLeft>>

\* A presence answer that is never taken for a hit.
Mod_startSearch_presence_Ignored(c, p) ==
    /\ variant = "Mod"
    /\ At(c, "a_presence")
    /\ StorageSet([searchState |-> Some([id |-> 0, isSearching |-> TRUE]),
                   searchResult |-> Null, searchError |-> Null])
    /\ Go(c, [calls[c] EXCEPT !.pc = "a_storeState", !.response = p])
    /\ UNCHANGED <<envVars, objVars, modVars, resetVars, faultsLeft>>

\* The presence answer (lines 110-152): "hit" names the requested place and a
\* gameId, "miss" is every other answer and a failed request.
Mod_startSearch_presence(c, p) ==
    /\ variant = "Mod"
    /\ At(c, "a_presence")
    /\ IF p = "hit"
       THEN /\ StorageSet([searchState |-> Null,
                           searchResult |-> Some(Found(PresenceGameId, "presence"))])
            /\ Go(c, [calls[c] EXCEPT !.pc = "a_storePresence", !.response = p,
                                      !.result = Some(Found(PresenceGameId, "presence"))])
       ELSE /\ StorageSet([searchState |-> Some([id |-> 0, isSearching |-> TRUE]),
                           searchResult |-> Null, searchError |-> Null])
            /\ Go(c, [calls[c] EXCEPT !.pc = "a_storeState", !.response = p])
    /\ UNCHANGED <<envVars, objVars, modVars, resetVars, faultsLeft>>

\* startSearch returns or throws; the finally block (lines 132, 167, 175-178).
Mod_startSearch_return(c) ==
    /\ variant = "Mod"
    /\ \/ At(c, "a_storePresence") /\ Go(c, Returned(calls[c], "returned"))
       \/ At(c, "a_storeResult") /\ Go(c, Returned(calls[c], "returned"))
       \/ At(c, "a_storeError") /\ Go(c, Returned(calls[c], "threw"))
    /\ isSearching' = FALSE
    /\ UNCHANGED <<envVars, searchLock, searchId, abortController,
                   totalServersProcessed, modVars, storage, resetVars, faultsLeft>>

Mod_resetSearchState ==
    /\ variant = "Mod"
    /\ Quiescent
    /\ resetsDone < limits.resets
    /\ resetsDone' = resetsDone + 1
    /\ IF isSearching
       THEN /\ abortController' = NewAbortController
            /\ isSearching' = FALSE
            /\ totalServersFound' = 0
            /\ currentBatchProgress' = 0
            /\ StorageSet([searchState |-> Null, searchResult |-> Null,
                           searchError |-> Null, searchProgress |-> Null])
            /\ resetPending' = TRUE
            /\ calls' = Detach(Abort(CancelSignalled(calls)))
            /\ UNCHANGED <<searchLock, searchId, totalServersProcessed, currentDelay,
                           targetAvatarUrl, lastProgressUpdate, requests>>
       ELSE UNCHANGED <<objVars, modVars, storage, resetPending, calls>>
    /\ UNCHANGED <<envVars, faultsLeft>>

\* updateProgress (lines 184-215), called with the call's locals l and the
\* place to go on at.  The write happens when more than 500 ms have passed
\* since the time in this.lastProgressUpdate, always when there is none.
Mod_updateProgress(c, l, serversChecked, currentBatch, totalBatches, next) ==
    \/ /\ StorageSet([searchProgress |-> Some(
                        [searchId |-> 0, serversChecked |-> serversChecked,
                         currentBatch |-> currentBatch, totalBatches |-> totalBatches])])
       /\ Go(c, [l EXCEPT !.pc = "a_progress", !.ret = next])
       /\ UNCHANGED lastProgressUpdate
    \/ /\ lastProgressUpdate
       /\ Go(c, [l EXCEPT !.pc = next])
       /\ UNCHANGED <<storage, lastProgressUpdate>>

\* The storage write of updateProgress completes (line 213).
Mod_updateProgress_done(c) ==
    /\ variant = "Mod"
    /\ At(c, "a_progress")
    /\ lastProgressUpdate' = TRUE
    /\ Go(c, [calls[c] EXCEPT !.pc = calls[c].ret, !.ret = ""])
    /\ UNCHANGED <<envVars, objVars, currentDelay, targetAvatarUrl, totalServersFound,
                   currentBatchProgress, requests, storage, resetVars, faultsLeft>>

\* searchServers up to the first updateProgress (lines 220-225).
Mod_searchServers_enter(c) ==
    /\ variant = "Mod"
    /\ At(c, "a_storeState")
    /\ Mod_updateProgress(c, [calls[c] EXCEPT !.cursor = 0, !.allTokens = << >>,
                                 !.totalServersChecked = 0, !.consecutiveErrors = 0],
                          0, Null, Null, "loopTop")
    /\ UNCHANGED <<envVars, objVars, currentDelay, targetAvatarUrl, totalServersFound,
                   currentBatchProgress, requests, resetVars, faultsLeft>>

\* RateLimiter.waitForToken(key, this.currentDelay) inside a call at `from`:
\* it waits on a timer (only after an earlier grant for the key) or grants.
Mod_waitForToken(c, key, waiting, granted) ==
    \/ /\ key \in requests
       /\ Go(c, [calls[c] EXCEPT !.pc = waiting, !.cooldownTime = currentDelay])
       /\ UNCHANGED requests
    \/ /\ requests' = requests \cup {key}
       /\ Go(c, [granted EXCEPT !.cooldownTime = currentDelay])

\* The top of the do-while body (lines 229-234).
Mod_searchServers_loopTop(c) ==
    /\ variant = "Mod"
    /\ At(c, "loopTop")
    /\ IF Aborted
       THEN /\ Go(c, [calls[c] EXCEPT !.pc = "ssReturn", !.result = Some(Cancelled)])
            /\ UNCHANGED requests
       ELSE Mod_waitForToken(c, "servers", "a_waitServers",
                [calls[c] EXCEPT !.pc = "a_fetchPage", !.signal = Signal])
    /\ UNCHANGED <<envVars, objVars, currentDelay, targetAvatarUrl, totalServersFound,
                   currentBatchProgress, lastProgressUpdate, storage, resetVars,
                   faultsLeft>>

\* The timer of waitForToken fired: the grant is recorded, the page fetched.
Mod_searchServers_fetch(c) ==
    /\ variant = "Mod"
    /\ At(c, "a_waitServers")
    /\ requests' = requests \cup {"servers"}
    /\ Go(c, [calls[c] EXCEPT !.pc = "a_fetchPage", !.signal = Signal])
    /\ UNCHANGED <<envVars, objVars, currentDelay, targetAvatarUrl, totalServersFound,
                   currentBatchProgress, lastProgressUpdate, storage, resetVars,
                   faultsLeft>>

\* The page fetch rejects with AbortError, inside the inner try.
Mod_searchServers_aborted(c) ==
    /\ variant = "Mod"
    /\ At(c, "a_fetchPage")
    /\ calls[c].signal = "aborted"
    /\ Go(c, [Answered(calls[c], "abort") EXCEPT !.pc = "catch", !.pageFault = TRUE])
    /\ UNCHANGED <<envVars, objVars, modVars, storage, resetVars, faultsLeft>>

\* A backoff that grows by the base delay instead of doubling.
Backoff_Adding(delay) == Min(delay + baseDelay, maxDelay)

\* Math.min(this.currentDelay * 2, this.maxDelay) (lines 245, 346, 370).
Backoff(delay) == Min(delay * 2, maxDelay)

\* Not code: the number of 429 answers in a row that follow the last
\* success, -1 when another failure came in between.
Throttled(l) == IF l.throttles < 0 THEN -1 ELSE l.throttles + 1

\* A page answer other than a page of servers (lines 244-260).
Mod_searchServers_failure(c, o) ==
    /\ variant = "Mod"
    /\ At(c, "a_fetchPage")
    /\ calls[c].signal # "aborted"
    /\ o # "ok"
    /\ TakeOutcome(o)
    /\ CASE o = "429" ->
              /\ currentDelay' = Backoff(currentDelay)
              /\ Go(c, [Answered(calls[c], o) EXCEPT !.pc = "while", !.pageFault = TRUE,
                                        !.throttles = Throttled(calls[c])])
         [] o = "http" ->
              /\ Go(c, [Answered(calls[c], o) EXCEPT !.pc = "catch", !.pageFault = TRUE,
                                        !.failures = @ + 1, !.throttles = -1])
              /\ UNCHANGED currentDelay
         [] o = "badjson" ->
              /\ currentDelay' = baseDelay
              /\ Go(c, [Answered(calls[c], o) EXCEPT !.pc = "catch", !.pageFault = TRUE,
                                        !.consecutiveErrors = 0, !.failures = @ + 1,
                                        !.throttles = 0])
         [] o = "errors" ->
              /\ currentDelay' = baseDelay
              /\ Go(c, [Answered(calls[c], o) EXCEPT !.pc = "while", !.pageFault = TRUE,
                                        !.consecutiveErrors = 0, !.failures = 0,
                                        !.throttles = 0])
    /\ UNCHANGED <<envVars, objVars, targetAvatarUrl, totalServersFound,
                   currentBatchProgress, lastProgressUpdate, requests, storage,
                   resetVars>>

\* A page of servers arrived (lines 253-263).
Mod_searchServers_page(c) ==
    /\ variant = "Mod"
    /\ At(c, "a_fetchPage")
    /\ calls[c].signal # "aborted"
    /\ currentDelay' = baseDelay
    /\ LET page == PageOf(calls[c].cursor)
           n == Len(PageData(page))
       IN  Mod_updateProgress(c, [Answered(calls[c], "ok") EXCEPT !.page = page, !.consecutiveErrors = 0,
                                     !.failures = 0, !.throttles = 0,
                                     !.totalServersChecked = @ + n],
                              calls[c].totalServersChecked + n, Null, Null, "collect")
    /\ UNCHANGED <<envVars, objVars, targetAvatarUrl, totalServersFound,
                   currentBatchProgress, requests, resetVars, faultsLeft>>

\* The servers of the page become request units; checkTokenBatch starts
\* (lines 265-294, 321-325).
Mod_searchServers_collect(c) ==
    /\ variant = "Mod"
    /\ At(c, "collect")
    /\ LET data == PageData(calls[c].page)
           tokens == PageTokens(data, Len(data))
       IN  IF Len(data) > 0 /\ Aborted
           THEN /\ Go(c, [calls[c] EXCEPT !.pc = "ssReturn", !.result = Some(Cancelled)])
                /\ UNCHANGED <<storage, lastProgressUpdate>>
           ELSE IF Len(tokens) > 0
                THEN Mod_updateProgress(c, [calls[c] EXCEPT !.allTokens = @ \o tokens, !.i = 0],
                        totalServersFound, Some(0),
                        Some(Len(splitTokensIntoChunks(calls[c].allTokens \o tokens,
                                                       BATCH_SIZE))), "batchLoop")
                ELSE /\ Go(c, NextPage(calls[c]))
                     /\ UNCHANGED <<storage, lastProgressUpdate>>
    /\ UNCHANGED <<envVars, objVars, currentDelay, targetAvatarUrl, totalServersFound,
                   currentBatchProgress, requests, resetVars, faultsLeft>>

\* The head of the for loop of checkTokenBatch and the progress report that
\* opens an iteration or follows the loop (lines 327-328, 375).
Mod_checkTokenBatch_loop(c) ==
    /\ variant = "Mod"
    /\ At(c, "batchLoop")
    /\ LET totalBatches == Len(splitTokensIntoChunks(calls[c].allTokens, BATCH_SIZE))
       IN  IF calls[c].i < totalBatches
           THEN Mod_updateProgress(c, calls[c], totalServersFound,
                                   Some(calls[c].i + 1), Some(totalBatches), "batchWait")
           ELSE Mod_updateProgress(c, calls[c], totalServersFound,
                                   Some(totalBatches), Some(totalBatches), "batchDone")
    /\ UNCHANGED <<envVars, objVars, currentDelay, targetAvatarUrl, totalServersFound,
                   currentBatchProgress, requests, resetVars, faultsLeft>>

\* checkTokenBatch returns null and the page is done (lines 376, 292-293).
Mod_searchServers_advance(c) ==
    /\ variant = "Mod"
    /\ At(c, "batchDone")
    /\ Go(c, NextPage(calls[c]))
    /\ UNCHANGED <<envVars, objVars, modVars, storage, resetVars, faultsLeft>>

\* waitForToken('tokens', this.currentDelay) (line 330).
Mod_checkTokenBatch_wait(c) ==
    /\ variant = "Mod"
    /\ At(c, "batchWait")
    /\ Mod_waitForToken(c, "tokens", "a_waitTokens", [calls[c] EXCEPT !.pc = "batchProgress"])
    /\ UNCHANGED <<envVars, objVars, currentDelay, targetAvatarUrl, totalServersFound,
                   currentBatchProgress, lastProgressUpdate, storage, resetVars,
                   faultsLeft>>

Mod_checkTokenBatch_waited(c) ==
    /\ variant = "Mod"
    /\ At(c, "a_waitTokens")
    /\ requests' = requests \cup {"tokens"}
    /\ Go(c, [calls[c] EXCEPT !.pc = "batchProgress"])
    /\ UNCHANGED <<envVars, objVars, currentDelay, targetAvatarUrl, totalServersFound,
                   currentBatchProgress, lastProgressUpdate, storage, resetVars,
                   faultsLeft>>

\* The second progress report of an iteration (lines 332-336).
Mod_checkTokenBatch_progress(c) ==
    /\ variant = "Mod"
    /\ At(c, "batchProgress")
    /\ Mod_updateProgress(c, calls[c], totalServersFound, Some(calls[c].i + 1),
            Some(Len(splitTokensIntoChunks(calls[c].allTokens, BATCH_SIZE))), "batchFetch")
    /\ UNCHANGED <<envVars, objVars, currentDelay, targetAvatarUrl, totalServersFound,
                   currentBatchProgress, requests, resetVars, faultsLeft>>

\* The batch request is sent (lines 338-343).
Mod_checkTokenBatch_fetch(c) ==
    /\ variant = "Mod"
    /\ At(c, "batchFetch")
    /\ Go(c, [calls[c] EXCEPT !.pc = "a_fetchBatch", !.signal = Signal])
    /\ UNCHANGED <<envVars, objVars, modVars, storage, resetVars, faultsLeft>>

\* The batch request rejects with AbortError (lines 366-368).
Mod_checkTokenBatch_aborted(c) ==
    /\ variant = "Mod"
    /\ At(c, "a_fetchBatch")
    /\ calls[c].signal = "aborted"
    /\ Go(c, NextPage(Answered(calls[c], "abort")))
    /\ UNCHANGED <<envVars, objVars, modVars, storage, resetVars, faultsLeft>>

\* The batch request is answered (lines 345-373).
Mod_checkTokenBatch_response(c, o) ==
    /\ variant = "Mod"
    /\ At(c, "a_fetchBatch")
    /\ calls[c].signal # "aborted"
    /\ TakeOutcome(o)
    /\ LET chunk == splitTokensIntoChunks(calls[c].allTokens, BATCH_SIZE)[calls[c].i + 1]
           match == FindMatch(BatchData(chunk), targetAvatarUrl)
       IN  CASE o = "429" ->
                  /\ currentDelay' = Backoff(currentDelay)
                  /\ Go(c, [Answered(calls[c], o) EXCEPT !.pc = "batchLoop",
                                            !.throttles = Throttled(calls[c])])
             [] o = "http" ->
                  /\ currentDelay' = Backoff(currentDelay)
                  /\ Go(c, [Answered(calls[c], o) EXCEPT !.pc = "a_batchSleep",
                                            !.throttles = -1, !.batchFailures = @ + 1])
             [] o = "ok" /\ match # Null ->
                  /\ currentDelay' = baseDelay
                  /\ Go(c, [Answered(calls[c], o) EXCEPT !.pc = "ssReturn", !.throttles = 0,
                                            !.result = Some(Found(match[1].requestId, ""))])
             [] OTHER ->
                  /\ currentDelay' = baseDelay
                  /\ Go(c, [Answered(calls[c], o) EXCEPT !.pc = "batchLoop", !.i = @ + 1,
                                            !.throttles = 0, !.batchFailures = 0])
    /\ UNCHANGED <<envVars, objVars, targetAvatarUrl, totalServersFound,
                   currentBatchProgress, lastProgressUpdate, requests, storage,
                   resetVars>>

\* A sleep of searchServers or checkTokenBatch is over (lines 303, 371-372).
Mod_resume(c) ==
    /\ variant = "Mod"
    /\ \/ At(c, "a_errSleep") /\ Go(c, [calls[c] EXCEPT !.pc = "while"])
       \/ At(c, "a_batchSleep") /\ Go(c, [calls[c] EXCEPT !.pc = "batchLoop"])
    /\ UNCHANGED <<envVars, objVars, modVars, storage, resetVars, faultsLeft>>

\* The inner catch of searchServers, and startSearch's catch when it
\* rethrows (lines 295-304, 310-315, 168-175).
Mod_searchServers_catch(c) ==
    /\ variant = "Mod"
    /\ At(c, "catch")
    /\ IF calls[c].consecutiveErrors + 1 >= MAX_CONSECUTIVE_ERRORS
       THEN /\ StorageSet([searchError |-> Some("Too many consecutive errors"),
                           searchState |-> Null])
            /\ Go(c, [calls[c] EXCEPT !.pc = "a_storeError", !.consecutiveErrors = @ + 1,
                                      !.error = "Too many consecutive errors"])
       ELSE /\ Go(c, [calls[c] EXCEPT !.pc = "a_errSleep", !.consecutiveErrors = @ + 1])
            /\ UNCHANGED storage
    /\ UNCHANGED <<envVars, objVars, modVars, resetVars, faultsLeft>>

\* The do-while condition and the return after the loop (lines 306-308).
Mod_searchServers_while(c) ==
    /\ variant = "Mod"
    /\ At(c, "while")
    /\ IF calls[c].cursor # 0 /\ ~Aborted
       THEN Go(c, [calls[c] EXCEPT !.pc = "loopTop"])
       ELSE Go(c, [calls[c] EXCEPT !.pc = "ssReturn", !.result = Some(NotFound)])
    /\ UNCHANGED <<envVars, objVars, modVars, storage, resetVars, faultsLeft>>

\* searchServers returned to startSearch (lines 154-165).
Mod_startSearch_result(c) ==
    /\ variant = "Mod"
    /\ At(c, "ssReturn")
    /\ LET result == [calls[c].result[1] EXCEPT !.searchType = "advanced"]
       IN  /\ StorageSet([searchState |-> Null, searchResult |-> Some(result)])
           /\ Go(c, [calls[c] EXCEPT !.pc = "a_storeResult", !.result = Some(result)])
    /\ UNCHANGED <<envVars, objVars, modVars, resetVars, faultsLeft>>

ModNext ==
    \/ \E c \in Calls, u \in AvatarUrls : Mod_startSearch(c, u)
    \/ Mod_resetSearchState
    \/ \E c \in Calls :
        \/ Mod_startSearch_begin(c)
        \/ \E p \in {"hit", "miss"} : Mod_startSearch_presence(c, p)
        \/ Mod_startSearch_return(c)
        \/ Mod_updateProgress_done(c)
        \/ Mod_searchServers_enter(c)
        \/ Mod_searchServers_loopTop(c)
        \/ Mod_searchServers_fetch(c)
        \/ Mod_searchServers_aborted(c)
        \/ \E o \in PageOutcomes : Mod_searchServers_failure(c, o)
        \/ Mod_searchServers_page(c)
        \/ Mod_searchServers_collect(c)
        \/ Mod_checkTokenBatch_loop(c)
        \/ Mod_searchServers_advance(c)
        \/ Mod_checkTokenBatch_wait(c)
        \/ Mod_checkTokenBatch_waited(c)
        \/ Mod_checkTokenBatch_progress(c)
        \/ Mod_checkTokenBatch_fetch(c)
        \/ Mod_checkTokenBatch_aborted(c)
        \/ \E o \in BatchOutcomes : Mod_checkTokenBatch_response(c, o)
        \/ Mod_resume(c)
        \/ Mod_searchServers_catch(c)
        \/ Mod_searchServers_while(c)
        \/ Mod_startSearch_result(c)

Next ==
    \/ BgNext
    \/ ModNext
    \/ ResetCompletes

Spec == Init /\ [][Next]_vars

\* The modular build with one search, for what a search does in the end.
LiveInit ==
    /\ Init
    /\ variant = "Mod"
    /\ limits.starts = 1 /\ limits.resets > 0

LiveNext == ModNext \/ ResetCompletes

\* The event loop runs every continuation that is ready, every timer fires
\* and every request and storage call is answered: a search that can take a
\* step is not suspended for ever.
LiveSpec ==
    /\ LiveInit /\ [][LiveNext]_vars
    /\ WF_vars(LiveNext /\ \E c \in Calls : InFlight(c) /\ calls'[c] # calls[c])

\* ------------------------------------------- splitTokensIntoChunks alone

\* The arrays and sizes the function is applied to: every length up to
\* MaxLen at every size up to MaxSize and at the batch size, and the 237
\* tokens of a full listing at the batch size.  Token k of an array is k, so
\* that order shows.
SplitInputs ==
    ((0..MaxLen) \X ((1..MaxSize) \cup {BATCH_SIZE})) \cup {<<237, BATCH_SIZE>>}

SplitInit ==
    /\ EngineUnused
    /\ api = Null
    /\ messageHandler = Null
    /\ watchdog = Null
    /\ chunker \in {[array |-> [k \in 1..in[1] |-> k], size |-> in[2], chunks |-> Null] :
                       in \in SplitInputs}
    /\ rateLimiter = Null
    /\ popup = Null
    /\ progress = Null

\* The call chunker.array is split by.
Split ==
    /\ chunker.chunks = Null
    /\ chunker' = [chunker EXCEPT
                      !.chunks = Some(splitTokensIntoChunks(chunker.array, chunker.size))]
    /\ UNCHANGED <<engineVars, rateLimiter, popup, progress, api, messageHandler,
                 watchdog>>

SplitSpec == SplitInit /\ [][Split]_vars

\* ------------------------- RateLimiter alone (src/src/background/rateLimiter.js)

\* Time is Date.now() in milliseconds.  The limiter is constructed at
\* RateEpoch, which like every real clock value exceeds every cooldown.
RateEpoch == CACHE_DURATION
RateKeys == {"servers", "tokens"}
Cooldowns == {baseDelay, 2 * baseDelay}
TickSteps == {baseDelay, CACHE_DURATION}
Callers == 1..MaxCallers

\* A constructed RateLimiter (lines 7-10), its idle callers and the clock.
\* `granted` is not code: it describes the latest return of waitForToken.
NewLimiter ==
    [now |-> RateEpoch, ticks |-> 0, waits |-> 0,
     requests |-> [k \in RateKeys |-> Null], lastCleanup |-> RateEpoch,
     callers |-> [a \in Callers |-> [pc |-> "idle", key |-> "", wake |-> 0,
                                     cooldownTime |-> 0]],
     lastReturn |-> [k \in RateKeys |-> Null], granted |-> Null]

\* A sweep that empties the map.
cleanup_All(r) ==
    IF r.now - r.lastCleanup > CACHE_DURATION
    THEN [r EXCEPT !.lastCleanup = r.now, !.requests = [k \in RateKeys |-> Null]]
    ELSE r

\* cleanup (lines 41-49), entered from waitForToken when the last one is
\* more than CACHE_DURATION ago (lines 22-24).
cleanup(r) ==
    IF r.now - r.lastCleanup > CACHE_DURATION
    THEN [r EXCEPT !.lastCleanup = r.now,
                   !.requests = [k \in RateKeys |->
                        IF r.requests[k] # Null /\ r.now - r.requests[k][1] > CACHE_DURATION
                        THEN Null ELSE r.requests[k]]]
    ELSE r

\* this.requests.set(key, Date.now()) and the return of waitForToken
\* (line 35) to caller a.
Rate_granted(r, a, key, cooldownTime) ==
    [r EXCEPT !.requests[key] = Some(r.now),
              !.callers[a] = [pc |-> "returned", key |-> "", wake |-> 0,
                              cooldownTime |-> 0],
              !.lastReturn[key] = Some(r.now),
              !.granted = Some([key |-> key, cooldownTime |-> cooldownTime,
                                at |-> r.now, recorded |-> r.now,
                                previous |-> r.lastReturn[key]])]

\* waitForToken(key, cooldownTime) up to its await or, without one, to its
\* return (lines 18-35).
Rate_waitForToken(a, key, cooldownTime) ==
    /\ rateLimiter.callers[a].pc # "waiting"
    /\ rateLimiter.waits < MaxWaits
    /\ LET r == [cleanup(rateLimiter) EXCEPT !.waits = @ + 1]
           lastRequest == IF r.requests[key] = Null THEN 0 ELSE r.requests[key][1]
           timeToWait == lastRequest + cooldownTime - r.now
       IN  rateLimiter' =
              IF timeToWait > 0
              THEN [r EXCEPT !.callers[a] = [pc |-> "waiting", key |-> key,
                                             wake |-> r.now + timeToWait,
                                             cooldownTime |-> cooldownTime]]
              ELSE Rate_granted(r, a, key, cooldownTime)
    /\ UNCHANGED <<engineVars, chunker, popup, progress, api, messageHandler,
                 watchdog>>

\* The timer of line 31 fires, at its time or later; the call returns.
Rate_timer(a) ==
    /\ rateLimiter.callers[a].pc = "waiting"
    /\ rateLimiter.now >= rateLimiter.callers[a].wake
    /\ rateLimiter' = Rate_granted(rateLimiter, a, rateLimiter.callers[a].key,
                                   rateLimiter.callers[a].cooldownTime)
    /\ UNCHANGED <<engineVars, chunker, popup, progress, api, messageHandler,
                 watchdog>>

\* Time passes.
Rate_tick(d) ==
    /\ rateLimiter.ticks < MaxTicks
    /\ rateLimiter' = [rateLimiter EXCEPT !.now = @ + d, !.ticks = @ + 1]
    /\ UNCHANGED <<engineVars, chunker, popup, progress, api, messageHandler,
                 watchdog>>

RateInit ==
    /\ EngineUnused
    /\ api = Null
    /\ messageHandler = Null
    /\ watchdog = Null
    /\ chunker = IdleChunker
    /\ rateLimiter = NewLimiter
    /\ popup = Null
    /\ progress = Null

RateNext ==
    \/ \E a \in Callers, key \in RateKeys, cooldownTime \in Cooldowns :
          Rate_waitForToken(a, key, cooldownTime)
    \/ \E a \in Callers : Rate_timer(a)
    \/ \E d \in TickSteps : Rate_tick(d)

RateSpec == RateInit /\ [][RateNext]_vars

\* ------------------------------- the popup (src/src/background/rateLimiter.js)

\* What searchPlayerInGame shows for the reply to its 'startSearch' message
\* (lines 471-501).  A property the reply lacks reads as undefined.
Popup_shows(response) ==
    IF "error" \in DOMAIN response
    THEN [title |-> "Search failed", detail |-> response.error]
    ELSE IF "result" \in DOMAIN response
         THEN LET result == response.result
              IN  IF "found" \in DOMAIN result /\ result.found
                  THEN [title |-> "Join", detail |-> ""]
                  ELSE [title |-> "Player not found",
                        detail |-> IF "cancelled" \in DOMAIN result /\ result.cancelled
                                   THEN "Search was cancelled"
                                   ELSE "Not found in any server"]
         ELSE [title |-> "", detail |-> ""]

\* ------------------- the search button (src/unnamed/part_000, src/popup.js)

\* Time is Date.now() / 1000 in seconds.  The popup is first opened at
\* PopupEpoch, which like every real clock value exceeds the cooldown.
PopupEpoch == COOLDOWN_TIME
PopupSteps == {1, COOLDOWN_TIME - 1}
Clicks == 1..MaxClicks

\* A popup that has loaded lastSearchTime from storage (part_000 lines
\* 360-361, popup.js lines 17-20) and installed its listeners.  `stored` is
\* storage.lastSearchTime, 0 when there is none; `interval` tells whether
\* the timer of popup.js startCooldown runs.  Not code: per activation the
\* time `at` it happened and the time `previous` of the last accepted one
\* before it; `lastAccepted`, `ticks` and `opens`.
NewPopup(build) ==
    [build |-> build, now |-> PopupEpoch, ticks |-> 0, opens |-> 0,
     lastSearchTime |-> 0, stored |-> 0, isSearching |-> FALSE, interval |-> FALSE,
     handlers |-> [h \in Clicks |-> [pc |-> "idle", at |-> 0, previous |-> Null]],
     messages |-> 0, lastAccepted |-> Null]

\* A cooldown test that lets a search through one second early.
Popup_coolingDown_Early(p) == p.now - p.lastSearchTime < COOLDOWN_TIME - 1

\* timeElapsed < this.COOLDOWN_TIME (part_000 lines 618-620, popup.js
\* lines 443-445).
Popup_coolingDown(p) == p.now - p.lastSearchTime < COOLDOWN_TIME

\* The search button is activated, by click or Enter: the listener and the
\* handler (handleGameSearch, part_000 lines 558-568 and 605-630; handleSearch
\* and startCooldown, popup.js lines 434-456 and 93-101) up to the first
\* await or the return.
Popup_activate(h, input) ==
    /\ popup.handlers[h].pc = "idle"
    /\ \A g \in Clicks : g < h => popup.handlers[g].pc # "idle"
    /\ LET seen == [pc |-> "refused", at |-> popup.now, previous |-> popup.lastAccepted]
       IN  popup' =
              IF popup.isSearching \/ input = "" \/ Popup_coolingDown(popup)
              THEN [popup EXCEPT !.handlers[h] = seen]
              ELSE [popup EXCEPT !.handlers[h] = [seen EXCEPT !.pc = "a_store"],
                                 !.lastSearchTime = popup.now,
                                 !.stored = popup.now,
                                 !.isSearching = (popup.build = "popup.js"),
                                 !.lastAccepted = Some(popup.now)]
    /\ UNCHANGED <<engineVars, chunker, rateLimiter, progress, api, messageHandler,
                 watchdog>>

\* storage.local.set has completed: the player lookup begins (part_000
\* lines 632-635 and 713-722; popup.js lines 103-115 and 458-461).
Popup_stored(h) ==
    /\ popup.handlers[h].pc = "a_store"
    /\ popup' = [popup EXCEPT !.handlers[h].pc = "a_lookup",
                              !.isSearching = (popup.build = "popup.js"),
                              !.interval = (popup.build = "popup.js")]
    /\ UNCHANGED <<engineVars, chunker, rateLimiter, progress, api, messageHandler,
                 watchdog>>

\* The player lookup has ended.  In part_000 the player is in no server that
\* presence names and the 'startSearch' message is sent (lines 812-827), or
\* the search ends here (lines 637-642); in popup.js the result is shown
\* (lines 462-478).
Popup_lookedUp(h, goesOn) ==
    /\ popup.handlers[h].pc = "a_lookup"
    /\ popup' =
          IF popup.build = "part_000"
          THEN IF goesOn
               THEN [popup EXCEPT !.handlers[h].pc = "a_message", !.isSearching = TRUE,
                                  !.messages = @ + 1]
               ELSE [popup EXCEPT !.handlers[h].pc = "done", !.isSearching = FALSE]
          ELSE [popup EXCEPT !.handlers[h].pc = "done"]
    /\ UNCHANGED <<engineVars, chunker, rateLimiter, progress, api, messageHandler,
                 watchdog>>

\* sendMessage has resolved; the finally block of handleGameSearch (part_000
\* lines 827-834 and 639-642).
Popup_sent(h) ==
    /\ popup.handlers[h].pc = "a_message"
    /\ popup' = [popup EXCEPT !.handlers[h].pc = "done", !.isSearching = FALSE]
    /\ UNCHANGED <<engineVars, chunker, rateLimiter, progress, api, messageHandler,
                 watchdog>>

\* The interval of startCooldown fires (popup.js lines 105-115).
Popup_interval ==
    /\ popup.interval
    /\ popup' = IF COOLDOWN_TIME - (popup.now - popup.lastSearchTime) <= 0
                THEN [popup EXCEPT !.isSearching = FALSE, !.interval = FALSE]
                ELSE popup
    /\ UNCHANGED <<engineVars, chunker, rateLimiter, progress, api, messageHandler,
                 watchdog>>

\* The popup is closed and opened again: its page is gone with every handler
\* that ran, a new PlayerFinder loads lastSearchTime from storage.
Popup_reopen ==
    /\ popup.opens < MaxOpens
    /\ popup' = [popup EXCEPT
                    !.opens = @ + 1, !.lastSearchTime = popup.stored,
                    !.isSearching = FALSE, !.interval = FALSE,
                    !.handlers = [h \in Clicks |->
                        IF popup.handlers[h].pc \in {"a_store", "a_lookup", "a_message"}
                        THEN [popup.handlers[h] EXCEPT !.pc = "gone"]
                        ELSE popup.handlers[h]]]
    /\ UNCHANGED <<engineVars, chunker, rateLimiter, progress, api, messageHandler,
                 watchdog>>

\* Time passes.
Popup_tick(d) ==
    /\ popup.ticks < MaxTicks
    /\ popup' = [popup EXCEPT !.now = @ + d, !.ticks = @ + 1]
    /\ UNCHANGED <<engineVars, chunker, rateLimiter, progress, api, messageHandler,
                 watchdog>>

PopupInit ==
    /\ EngineUnused
    /\ api = Null
    /\ messageHandler = Null
    /\ watchdog = Null
    /\ chunker = IdleChunker
    /\ rateLimiter = Null
    /\ popup \in {NewPopup(build) : build \in {"part_000", "popup.js"}}
    /\ progress = Null

PopupNext ==
    \/ \E h \in Clicks, input \in {"", "name"} : Popup_activate(h, input)
    \/ \E h \in Clicks : Popup_stored(h)
    \/ \E h \in Clicks, goesOn \in BOOLEAN : Popup_lookedUp(h, goesOn)
    \/ \E h \in Clicks : Popup_sent(h)
    \/ Popup_interval
    \/ Popup_reopen
    \/ \E d \in PopupSteps : Popup_tick(d)

PopupSpec == PopupInit /\ [][PopupNext]_vars

\* ------------------------------------------------- updateProgress alone
\* src/unnamed/part_001 lines 184-215, with Date.now() as a clock.  The
\* callers are the searches that run at a time; `previous` and `last` are not
\* code: the times of the latest two storage writes of searchProgress.

\* updateProgress up to its await or, when throttled, to its return.
Progress_updateProgress(a) ==
    /\ progress.callers[a] = Null
    /\ progress.waits < MaxWaits
    /\ LET currentTime == progress.now
           lastUpdate == IF progress.lastProgressUpdate = Null THEN 0
                         ELSE progress.lastProgressUpdate[1]
       IN  progress' =
              IF currentTime - lastUpdate > PROGRESS_THROTTLE
              THEN [progress EXCEPT !.waits = @ + 1,
                                    !.callers[a] = Some(currentTime),
                                    !.previous = progress.last,
                                    !.last = Some(currentTime)]
              ELSE [progress EXCEPT !.waits = @ + 1]
    /\ UNCHANGED <<engineVars, chunker, rateLimiter, popup, api, messageHandler,
                 watchdog>>

\* The storage write completes: this.lastProgressUpdate = currentTime.
Progress_stored(a) ==
    /\ progress.callers[a] # Null
    /\ progress' = [progress EXCEPT !.lastProgressUpdate = progress.callers[a],
                                    !.callers[a] = Null]
    /\ UNCHANGED <<engineVars, chunker, rateLimiter, popup, api, messageHandler,
                 watchdog>>

\* Time passes.
Progress_tick(d) ==
    /\ progress.ticks < MaxTicks
    /\ progress' = [progress EXCEPT !.now = @ + d, !.ticks = @ + 1]
    /\ UNCHANGED <<engineVars, chunker, rateLimiter, popup, api, messageHandler,
                 watchdog>>

\* No progress was reported yet (this.lastProgressUpdate is undefined) and
\* the clock reads more than the throttle interval, as Date.now() does.
ProgressInit ==
    /\ EngineUnused
    /\ api = Null
    /\ messageHandler = Null
    /\ watchdog = Null
    /\ chunker = IdleChunker
    /\ rateLimiter = Null
    /\ popup = Null
    /\ progress = [now |-> 2 * PROGRESS_THROTTLE, ticks |-> 0, waits |-> 0,
                   lastProgressUpdate |-> Null,
                   callers |-> [a \in Callers |-> Null],
                   previous |-> Null, last |-> Null]

ProgressNext ==
    \/ \E a \in Callers : Progress_updateProgress(a)
    \/ \E a \in Callers : Progress_stored(a)
    \/ \E d \in {1, PROGRESS_THROTTLE, PROGRESS_THROTTLE + 1} : Progress_tick(d)

ProgressSpec == ProgressInit /\ [][ProgressNext]_vars

\* ----------------- the API client (src/src/popup/components/robloxAPI.js)

\* A pause of one second after every failed attempt.
RetryPause_Constant(i) == 1000

\* Math.pow(2, i) * 1000 (line 64): the pause after the failed attempt i.
RetryPause(i) == 2^i * 1000

\* The locals of one call of fetchWithRetry: signal is the controller whose
\* signal finalOptions holds, timeoutId the timer of the attempt under way.
\* Not code: n numbers the calls, outcomes lists how the attempts ended,
\* failedAt is the time of the last failure.
IdleFetch ==
    [pc |-> "idle", n |-> 0, retries |-> 0, i |-> 0, signal |-> 0, timeoutId |-> Null,
     lastError |-> Null, outcomes |-> << >>, failedAt |-> 0]

\* A constructed RobloxAPI (lines 32-34), its callers, who make one call
\* each, one after another, and the clock.  Controllers are
\* numbered as they are constructed: controller is this.controller, aborted
\* those whose signal is aborted; timers are the armed timeouts of line 52.
NewApi ==
    [now |-> 0, ticks |-> 0, waits |-> 0, controller |-> 0, aborted |-> {},
     timers |-> {}, call |-> IdleFetch]

\* Lines 52-53: the timeout is armed and the request sent with finalOptions.
Api_send(r, l) ==
    LET timer == [n |-> l.n, due |-> r.now + TIMEOUT]
    IN  [r EXCEPT !.timers = @ \cup {timer},
                  !.call = [l EXCEPT !.pc = "a_fetch", !.timeoutId = Some(timer)]]

\* fetchWithRetry(url, options, retries) up to its first await or, when
\* the loop has no round, to its throw (lines 39-53, 68).
Api_fetchWithRetry(retries) ==
    /\ api.call.pc \in {"idle", "returned", "threw"}
    /\ api.waits < MaxCallers
    /\ LET r == [api EXCEPT !.waits = @ + 1]
           l == [IdleFetch EXCEPT !.n = r.waits, !.retries = retries,
                                  !.signal = api.controller]
       IN  api' = IF 0 < retries THEN Api_send(r, l)
                  ELSE [r EXCEPT !.call = [l EXCEPT !.pc = "threw"]]
    /\ UNCHANGED <<engineVars, chunker, rateLimiter, popup, progress, messageHandler,
                   watchdog>>

\* The awaited fetch settles (lines 53-66): "ok" is a response with a JSON
\* body, "http" one that is not ok or whose body does not parse, "network"
\* a rejection, "abort" the rejection of a fetch whose signal is aborted.
\* Only a response clears the timer of the attempt.
Api_response(o) ==
    /\ api.call.pc = "a_fetch"
    /\ o \in IF api.call.signal \in api.aborted THEN {"abort"}
             ELSE {"ok", "http", "network"}
    /\ LET l == [api.call EXCEPT !.outcomes = Append(@, o), !.timeoutId = Null]
           r == IF o \in {"ok", "http"}
                THEN [api EXCEPT !.timers = @ \ {api.call.timeoutId[1]}]
                ELSE api
       IN  api' =
             IF o = "ok"
             THEN [r EXCEPT !.call = [l EXCEPT !.pc = "returned"]]
             ELSE [r EXCEPT !.call =
                      [l EXCEPT !.lastError = Some(o), !.failedAt = api.now,
                                !.pc = IF l.i < l.retries - 1 THEN "a_backoff"
                                       ELSE "threw"]]
    /\ UNCHANGED <<engineVars, chunker, rateLimiter, popup, progress, messageHandler,
                   watchdog>>

\* The pause of line 64 is over, at its time or later: the next round.
Api_retry ==
    /\ api.call.pc = "a_backoff"
    /\ api.now >= api.call.failedAt + RetryPause(api.call.i)
    /\ api' = Api_send(api, [api.call EXCEPT !.i = @ + 1])
    /\ UNCHANGED <<engineVars, chunker, rateLimiter, popup, progress, messageHandler,
                   watchdog>>

\* A timeout of line 52 fires, at its time or later: this.controller.abort().
Api_timeout(timer) ==
    /\ timer \in api.timers
    /\ api.now >= timer.due
    /\ api' = [api EXCEPT !.timers = @ \ {timer}, !.aborted = @ \cup {api.controller}]
    /\ UNCHANGED <<engineVars, chunker, rateLimiter, popup, progress, messageHandler,
                   watchdog>>

\* abortRequests (lines 139-142).
Api_abortRequests ==
    /\ api.controller < MaxResets
    /\ api' = [api EXCEPT !.aborted = @ \cup {api.controller}, !.controller = @ + 1]
    /\ UNCHANGED <<engineVars, chunker, rateLimiter, popup, progress, messageHandler,
                   watchdog>>

\* Time passes while a pause or a timeout is under way.
Api_tick(d) ==
    /\ api.ticks < MaxTicks
    /\ api.timers # {} \/ api.call.pc = "a_backoff"
    /\ api' = [api EXCEPT !.now = @ + d, !.ticks = @ + 1]
    /\ UNCHANGED <<engineVars, chunker, rateLimiter, popup, progress, messageHandler,
                   watchdog>>

ApiInit ==
    /\ EngineUnused
    /\ chunker = IdleChunker
    /\ rateLimiter = Null
    /\ popup = Null
    /\ progress = Null
    /\ api = NewApi
    /\ messageHandler = Null
    /\ watchdog = Null

ApiNext ==
    \/ \E retries \in {0, 1, MAX_RETRIES} : Api_fetchWithRetry(retries)
    \/ \E o \in {"ok", "http", "network", "abort"} : Api_response(o)
    \/ Api_retry
    \/ \E timer \in api.timers : Api_timeout(timer)
    \/ Api_abortRequests
    \/ \E d \in {RetryPause(0), TIMEOUT} : Api_tick(d)

ApiSpec == ApiInit /\ [][ApiNext]_vars

\* --------------------------- the debug log filter (src/unnamed/part_000)

\* A text is read as its parts: << >> is no text, <<"Starting search #", n>>
\* a text in which the digits of n follow these words, anything else a text
\* without them.  The number /Starting search #(\d+)/ and parseInt give.
StartedSearch(text) ==
    IF Len(text) = 2 /\ text[1] = "Starting search #" THEN Some(text[2]) ELSE Null

\* A constructed MessageHandler (lines 38-42): processedMessages is the Set
\* in the order of insertion.  Not code: last describes the latest call of
\* addMessage, `again` telling that it returned true for a messageId it had
\* returned true for since the last clearing; since holds these ids.
NewMessageHandler(maxSize) ==
    [processedMessages |-> << >>, maxSize |-> maxSize, currentSearchId |-> Null,
     since |-> {}, last |-> Null]

\* addMessage(message) (lines 44-74); searchId 0 is one that is not set.
MH_addMessage(message) ==
    LET h == messageHandler
        starts == message.text # << >> /\ StartedSearch(message.text) # Null
        currentSearchId == IF starts THEN StartedSearch(message.text)
                           ELSE h.currentSearchId
        cleared == IF starts THEN << >> ELSE h.processedMessages
        since == IF starts THEN {} ELSE h.since
        known == \E k \in 1..Len(cleared) : cleared[k] = message.messageId
        kept == IF Len(cleared) >= h.maxSize THEN Tail(cleared) ELSE cleared
        returned == /\ message.text # << >>
                    /\ ~(message.searchId # 0 /\ Some(message.searchId) # currentSearchId)
                    /\ ~known
    IN  /\ messageHandler' =
              [h EXCEPT !.currentSearchId = currentSearchId,
                        !.processedMessages =
                            IF returned THEN Append(kept, message.messageId) ELSE cleared,
                        !.since = IF returned THEN since \cup {message.messageId}
                                  ELSE since,
                        !.last = Some([messageId |-> message.messageId,
                                       searchId |-> message.searchId,
                                       returned |-> returned,
                                       again |-> returned /\ message.messageId \in since])]
        /\ UNCHANGED <<engineVars, chunker, rateLimiter, popup, progress, api, watchdog>>

\* reset() (lines 76-79).
MH_reset ==
    /\ messageHandler' = [messageHandler EXCEPT !.processedMessages = << >>,
                                                !.currentSearchId = Null,
                                                !.since = {}, !.last = Null]
    /\ UNCHANGED <<engineVars, chunker, rateLimiter, popup, progress, api, watchdog>>

MessageInit ==
    /\ EngineUnused
    /\ chunker = IdleChunker
    /\ rateLimiter = Null
    /\ popup = Null
    /\ progress = Null
    /\ api = Null
    /\ messageHandler \in {NewMessageHandler(maxSize) : maxSize \in 1..MaxProcessed}
    /\ watchdog = Null

MessageNext ==
    \/ \E text \in {<< >>, <<"log">>} \cup {<<"Starting search #", n>> : n \in Calls},
          id \in {0} \cup Calls, messageId \in 1..(MaxProcessed + 1) :
          MH_addMessage([text |-> text, searchId |-> id, messageId |-> messageId])
    \/ MH_reset

MessageSpec == MessageInit /\ [][MessageNext]_vars

\* ----- the popup's watchdog (src/unnamed/part_000, src/src/background/rateLimiter.js)

\* checkSearchProgress has just been called for a search the background runs
\* (lines 850-854; 513-526): part_000 polls the storage every second, the
\* other popup arms one timer.  Not code: running tells that the background
\* search has not ended, cancelRequested that the popup has asked the
\* background to cancel, which no statement of either popup does; lastEmission
\* is the time of the latest progress record and quiet, once the popup has
\* shown the timeout, the time without one it was shown after.
NewWatchdog(build) ==
    [build |-> build, now |-> PROGRESS_TIMEOUT, ticks |-> 0, armed |-> TRUE,
     lastProgressUpdate |-> PROGRESS_TIMEOUT,
     nextCheck |-> PROGRESS_TIMEOUT + PROGRESS_CHECK_INTERVAL,
     due |-> 2 * PROGRESS_TIMEOUT,
     storage |-> [searchState |-> TRUE, searchResult |-> FALSE, searchProgress |-> Null],
     shown |-> "", running |-> TRUE, cancelRequested |-> FALSE,
     lastEmission |-> PROGRESS_TIMEOUT, quiet |-> 0]

\* cleanupSearch (lines 954-974): the interval is cleared, the entries too.
Watch_cleanupSearch(w) ==
    [w EXCEPT !.armed = FALSE,
              !.storage = [searchState |-> FALSE, searchResult |-> FALSE,
                           searchProgress |-> Null]]

\* The background stores a progress record with the present time.
Watch_emit ==
    /\ watchdog.running
    /\ watchdog.lastEmission < watchdog.now
    /\ watchdog' = [watchdog EXCEPT !.storage.searchProgress = Some(watchdog.now),
                                    !.lastEmission = watchdog.now]
    /\ UNCHANGED <<engineVars, chunker, rateLimiter, popup, progress, api, messageHandler>>

\* The background search ends by itself and stores its result; the
\* completionListener of the second popup clears the timer (lines 529-535).
Watch_finish ==
    /\ watchdog.running
    /\ watchdog' = [watchdog EXCEPT !.running = FALSE,
                                    !.storage.searchState = FALSE,
                                    !.storage.searchResult = TRUE,
                                    !.armed = IF watchdog.build = "part_000" THEN @
                                              ELSE FALSE]
    /\ UNCHANGED <<engineVars, chunker, rateLimiter, popup, progress, api, messageHandler>>

\* One run of the interval callback of part_000 (lines 855-938).
Watch_check ==
    /\ watchdog.build = "part_000"
    /\ watchdog.armed
    /\ watchdog.now >= watchdog.nextCheck
    /\ LET w == watchdog
           progress_ == w.storage.searchProgress
           lastProgressUpdate_ ==
               IF progress_ # Null /\ progress_[1] > w.lastProgressUpdate
               THEN progress_[1] ELSE w.lastProgressUpdate
           timeSinceUpdate == w.now - lastProgressUpdate_
       IN  watchdog' =
             IF ~w.storage.searchState THEN Watch_cleanupSearch(w)
             ELSE IF w.storage.searchResult
                  THEN [Watch_cleanupSearch(w) EXCEPT !.shown = "result"]
                  ELSE IF timeSinceUpdate > PROGRESS_TIMEOUT
                       THEN [Watch_cleanupSearch(w) EXCEPT
                                !.lastProgressUpdate = lastProgressUpdate_,
                                !.shown = "Search timed out",
                                !.quiet = w.now - w.lastEmission]
                       ELSE [w EXCEPT !.lastProgressUpdate = lastProgressUpdate_,
                                      !.nextCheck = w.now + PROGRESS_CHECK_INTERVAL]
    /\ UNCHANGED <<engineVars, chunker, rateLimiter, popup, progress, api, messageHandler>>

\* The timer of the second popup fires (lines 522-526), at its time or later.
Watch_timeout ==
    /\ watchdog.build = "modules"
    /\ watchdog.armed
    /\ watchdog.now >= watchdog.due
    /\ watchdog' = [watchdog EXCEPT !.armed = FALSE, !.shown = "Search timed out",
                                    !.quiet = watchdog.now - watchdog.lastEmission]
    /\ UNCHANGED <<engineVars, chunker, rateLimiter, popup, progress, api, messageHandler>>

\* Time passes.
Watch_tick(d) ==
    /\ watchdog.ticks < MaxTicks
    /\ watchdog' = [watchdog EXCEPT !.now = @ + d, !.ticks = @ + 1]
    /\ UNCHANGED <<engineVars, chunker, rateLimiter, popup, progress, api, messageHandler>>

WatchInit ==
    /\ EngineUnused
    /\ chunker = IdleChunker
    /\ rateLimiter = Null
    /\ popup = Null
    /\ progress = Null
    /\ api = Null
    /\ messageHandler = Null
    /\ watchdog \in {NewWatchdog(build) : build \in {"part_000", "modules"}}

WatchNext ==
    \/ Watch_emit
    \/ Watch_finish
    \/ Watch_check
    \/ Watch_timeout
    \/ \E d \in {PROGRESS_CHECK_INTERVAL, PROGRESS_TIMEOUT \div 2, PROGRESS_TIMEOUT} :
          Watch_tick(d)

WatchSpec == WatchInit /\ [][WatchNext]_vars

\* ================================================================ claims

Searches == {c \in Calls : InFlight(c)}
IsRequestPc(label) == label \in {"a_fetchPage", "a_fetchBatch"}

\* The call takes its first step in this transition.
Starts(c) == calls[c].pc = "idle" /\ calls'[c].pc # "idle"
\* The accepted call returns or throws in this transition.
Ends(c) == InFlight(c) /\ calls'[c].pc = "done"

\* C1: in src/background.js at most one accepted startSearch is between its
\* acceptance and its return, whatever starts, resets and answers interleave;
\* a start that arrives while one is in flight returns 'Search already in
\* progress' at once and is not kept for later.
C1_SingleSearch ==
    /\ [](variant = "Bg" => Cardinality(Searches) <= 1)
    /\ [][variant = "Bg" =>
            \A c \in Calls :
                (Starts(c) /\ Searches # {}) =>
                    /\ calls'[c].pc = "done"
                    /\ ~calls'[c].accepted
                    /\ calls'[c].reply = AlreadyRunning]_vars

C1_Witness ==
    /\ variant = "Bg"
    /\ ~isSearching
    /\ \E c, d \in Calls :
        /\ InFlight(c) /\ calls[c].cancelSignalled
        /\ calls[d].reply = AlreadyRunning

\* C2 (as claimed): in the modular build, as long as nobody has called
\* resetSearchState, two startSearch calls are never both accepted and in
\* flight: the test of isSearching and its setting are one atomic step.
C2_AtomicTestAndSet ==
    (variant = "Mod" /\ resetsDone = 0) => Cardinality(Searches) <= 1

\* C3: a refused startSearch changes nothing but its own reply: searchId, the
\* lock, isSearching, the abort controller (and the signals handed out),
\* totalServersProcessed, the stored entries and every other call stay as
\* they were.
C3_RefusedStartChangesNothing ==
    [][\A c \in Calls :
        (Starts(c) /\ calls'[c].reply = AlreadyRunning) =>
            /\ UNCHANGED <<searchId, searchLock, isSearching, abortController,
                           totalServersProcessed, storage>>
            /\ \A d \in Calls \ {c} : calls'[d] = calls[d]]_vars

C3_Witness ==
    /\ variant = "Mod"
    /\ storage.searchState # Null
    /\ \E c, d \in Calls : InFlight(c) /\ calls[d].reply = AlreadyRunning

\* C4 (as claimed): in the modular build a search that was running when
\* resetSearchState was called sends no page fetch and no batch request
\* afterwards.
C4_NoRequestAfterCancel ==
    [][variant = "Mod" =>
        \A c \in Calls :
            calls[c].cancelSignalled =>
                ~(/\ ~IsRequestPc(calls[c].pc)
                  /\ IsRequestPc(calls'[c].pc)
                  /\ calls'[c].signal # "aborted")]_vars

\* C5 (as claimed): a paged search whose outcome was open when cancellation
\* was signalled ends with {found: false, cancelled: true}: searchServers
\* returns nothing else to startSearch, also when none of its page fetches
\* failed.
C5_CancelledSearchReportsCancelled ==
    \A c \in Calls :
        (calls[c].cancelSignalled /\ ~calls[c].pageFault /\ calls[c].pc = "ssReturn") =>
            calls[c].result = Some(Cancelled)

\* The image of some player of the world is the wanted one.
RECURSIVE AnyMatch(_, _, _)
AnyMatch(pages, k, url) ==
    IF k = 0 THEN FALSE
    ELSE \/ \E s \in 1..Len(pages[k]) :
              \E t \in 1..Len(pages[k][s].playerTokens) :
                  ThumbnailUrl(pages[k][s].playerTokens[t]) = url
         \/ AnyMatch(pages, k - 1, url)

\* C6: when every page fetch of a search was answered with a page, nobody's
\* image is the target's and the search was not cancelled, searchServers
\* returns {found: false} and its servers-checked count is the number of
\* servers on all pages.
C6_NotFoundCountsEveryServer ==
    \A c \in Calls :
        (/\ calls[c].pc = "ssReturn"
         /\ ~calls[c].pageFault
         /\ ~calls[c].cancelSignalled
         /\ ~AnyMatch(world, Len(world), calls[c].avatarUrl)) =>
            /\ calls[c].result = Some(NotFound)
            /\ calls[c].totalServersChecked = SumLen(world, Len(world))

C6_Witness ==
    \E c \in Calls :
        /\ calls[c].pc = "ssReturn"
        /\ ~calls[c].pageFault /\ ~calls[c].cancelSignalled
        /\ world = WorldNoMatch
        /\ calls[c].result = Some(NotFound)
        /\ calls[c].totalServersChecked = 3

\* The URL the resolver compares with: the avatarUrl argument in
\* src/background.js, this.targetAvatarUrl in the modular build.
TargetUrl(c) == IF variant = "Bg" THEN calls[c].avatarUrl ELSE targetAvatarUrl

\* The batch the call has sent and waits for.
SentBatch(c) == splitTokensIntoChunks(calls[c].allTokens, BATCH_SIZE)[calls[c].i + 1]

HasFound(l) == l.result # Null /\ l.result[1].found

C8_IdleAfterEveryOutcome ==
    /\ [](Searches = {} => ~isSearching /\ ~searchLock)
    /\ [][\A c \in Calls :
            /\ Ends(c) => ~isSearching' /\ ~searchLock'
            /\ (Starts(c) /\ Searches = {}) => calls'[c].accepted]_vars

C8_Witness ==
    /\ variant = "Bg"
    /\ \E c, d \in Calls :
        /\ calls[c].pc = "done" /\ calls[c].reply = "returned"
        /\ InFlight(d)

\* C9 (as claimed): once resetSearchState has completed, no paged search
\* that was running when it was called waits for the answer to a request of
\* its own that the reset did not abort.
C9_ResetReturnsToIdle ==
    ~resetPending =>
        \A c \in Calls :
            ~(/\ InFlight(c) /\ calls[c].cancelSignalled
              /\ IsRequestPc(calls[c].pc)
              /\ calls[c].signal # "aborted")

\* C10: searchId never decreases and changes only when a startSearch is
\* accepted, which sets it, and the id the search captures, to one more than
\* it was: more than the id of every earlier search.
C10_SearchIdGrowsOnAcceptOnly ==
    /\ [](\A c \in Calls : calls[c].currentSearchId <= searchId)
    /\ [][/\ searchId' >= searchId
          /\ \A c \in Calls :
                (variant = "Bg" /\ Starts(c) /\ calls'[c].accepted) =>
                    /\ searchId' = searchId + 1
                    /\ calls'[c].currentSearchId = searchId'
          /\ searchId' # searchId =>
                \E c \in Calls : Starts(c) /\ calls'[c].accepted]_vars

C10_Witness ==
    /\ searchId = 2
    /\ \E c \in Calls : InFlight(c) /\ calls[c].currentSearchId = 2

\* Cancellation has not touched the search of call c.
Undisturbed(c) == ~calls[c].cancelSignalled /\ ~Aborted

\* C18: in the modular build a page request answered 429 is followed by a
\* request for the same cursor, the empty cursor of the first page included:
\* the search neither moves to another page nor ends.
C18_Page429RetriesSameCursor ==
    [][\A c \in Calls :
          (variant = "Mod" /\ calls[c].pc = "while" /\ calls[c].response = "429"
             /\ Undisturbed(c))
          => (calls'[c].pc = "loopTop" /\ calls'[c].cursor = calls[c].cursor)]_vars

\* C20: a page answer that carries an `errors` field makes the search ask for
\* the same cursor again, in both builds and for every cursor, the first
\* page's included; it is not the end of the listing.
C20_ErrorsBodyRetriesSameCursor ==
    [][\A c \in Calls :
          (calls[c].pc = "while" /\ calls[c].response = "errors" /\ Undisturbed(c))
          => (calls'[c].pc = "loopTop" /\ calls'[c].cursor = calls[c].cursor
                /\ storage'.searchResult = storage.searchResult)]_vars

\* C13: the backoff delay of the modular build is at every moment at least
\* the base of 1000 ms and at most the cap of 20000 ms.
C13_DelayWithinBaseAndCap ==
    variant = "Mod" => (baseDelay <= currentDelay /\ currentDelay <= MAX_BACKOFF_TIME)

\* The newest accepted start runs under another id than the one call c took.
Superseded(c) ==
    variant = "Bg" /\ calls[c].accepted /\ calls[c].currentSearchId # searchId

\* C11: a search of src/background.js whose captured id differs from the live
\* searchId does nothing any more: it has returned, so it writes no
\* searchResult, searchState or searchProgress and issues no request.
C11_SupersededSearchDoesNothing ==
    [][\A c \in Calls :
          Superseded(c) => (calls[c].pc = "done" /\ calls'[c] = calls[c])]_vars

C11_Witness ==
    \E c, d \in Calls : Superseded(c) /\ InFlight(d) /\ IsRequestPc(calls[d].pc)

\* Call c is the only start there has been.
Sole(c) == \A d \in Calls \ {c} : calls[d].pc = "idle"

\* C12: in the modular build the delay doubles with every 429 in a row and
\* is back at the base after one success: after k such answers the next
\* request waits min(1000 * 2^k, maxDelay), so four of them are met by
\* 1000, 2000, 4000 and 8000, and the request after a success waits 1000.
C12_BackoffDoublesAndResets ==
    \A c \in Calls :
        (variant = "Mod" /\ InFlight(c) /\ Sole(c) /\ calls[c].throttles >= 0)
        => currentDelay = Min(baseDelay * 2 ^ calls[c].throttles, maxDelay)

C12_Witness ==
    \E c \in Calls :
        /\ variant = "Mod" /\ Sole(c) /\ IsRequestPc(calls[c].pc)
        /\ calls[c].throttles = 4
        /\ currentDelay = 16 * baseDelay

\* C16: a refused start is answered as a start error: the reply to the
\* message carries an error and no result, and the popup does not show it
\* as 'Player not found'.
C16_RefusalIsAStartError ==
    \A c \in Calls :
        (variant = "Mod" /\ calls[c].reply = AlreadyRunning)
        => LET response == calls[c].sent[1]
           IN  /\ "error" \in DOMAIN response
               /\ "result" \notin DOMAIN response
               /\ Popup_shows(response).title # "Player not found"

\* C19: in the modular build a search fails with 'Too many consecutive
\* errors' exactly when 5 page requests in a row have failed otherwise than
\* by a 429 (a status that is not a success, a body that does not parse),
\* with no successful request between them; after fewer, it sleeps and asks
\* for the same cursor again.
C19_FiveFailuresEndTheSearch ==
    [][\A c \in Calls :
          (variant = "Mod" /\ Undisturbed(c)) =>
             /\ calls[c].pc = "catch" =>
                   (calls'[c].pc = "a_storeError"
                      <=> calls[c].failures >= MAX_CONSECUTIVE_ERRORS)
             /\ (calls[c].pc = "while" /\ calls[c].response \in {"http", "badjson"})
                   => (calls'[c].pc = "loopTop" /\ calls'[c].cursor = calls[c].cursor)]_vars

RECURSIVE Flatten(_, _)
Flatten(chunks, k) == IF k = 0 THEN << >> ELSE Flatten(chunks, k - 1) \o chunks[k]

\* C14: splitTokensIntoChunks(tokens, size) returns ceil(n / size) chunks
\* that concatenate to the input in order, each but the last of length size,
\* the last of length n - size * (ceil(n / size) - 1); 237 tokens at size 50
\* give chunks of 50, 50, 50, 50 and 37, and no tokens give no chunk.
C14_ChunksPartitionTheInput ==
    chunker.chunks # Null =>
        LET chunks == chunker.chunks[1]
            n == Len(chunker.array)
            size == chunker.size
            count == (n + size - 1) \div size       \* ceil(n / size)
        IN  /\ Len(chunks) = count
            /\ Flatten(chunks, Len(chunks)) = chunker.array
            /\ \A k \in 1..(count - 1) : Len(chunks[k]) = size
            /\ count > 0 => Len(chunks[count]) = n - size * (count - 1)
            /\ n = 0 => chunks = << >>
            /\ (n = 237 /\ size = 50)
                  => [k \in 1..Len(chunks) |-> Len(chunks[k])] = <<50, 50, 50, 50, 37>>

C14_Witness ==
    /\ chunker.chunks # Null
    /\ Len(chunker.array) = 237 /\ chunker.size = BATCH_SIZE
    /\ Len(chunker.chunks[1]) = 5 /\ Len(chunker.chunks[1][5]) = 37

\* C15: whenever waitForToken(key, minInterval) returns, the previous return
\* for that key, if there was one, is at least minInterval earlier, whoever
\* the callers are and however many wait at once; and the time recorded for
\* the key is the time of the return.
C15_GrantsAreSpaced ==
    rateLimiter.granted # Null =>
        LET g == rateLimiter.granted[1]
        IN  /\ g.recorded = g.at
            /\ g.previous # Null => g.at - g.previous[1] >= g.cooldownTime

\* The activation went past the checks of the handler: a search began.
Accepted(handler) == handler.pc \notin {"idle", "refused"}

\* The activation came less than the cooldown after an accepted one.
InsideCooldown(handler) ==
    handler.previous # Null /\ handler.at - handler.previous[1] < COOLDOWN_TIME

C29_FinalEmissionIsWritten ==
    [][\A c \in Calls :
          LET totalBatches == Len(splitTokensIntoChunks(calls[c].allTokens, BATCH_SIZE))
          IN  (variant = "Mod" /\ calls[c].pc = "batchLoop" /\ calls[c].i >= totalBatches
                 /\ calls'[c].pc # "batchLoop")
              => /\ storage'.searchProgress # Null
                 /\ storage'.searchProgress[1].currentBatch = Some(totalBatches)
                 /\ storage'.searchProgress[1].totalBatches = Some(totalBatches)]_vars

\* C30: within one search of the modular build the serversChecked of the
\* stored searchProgress record never decreases from one written record to
\* the next.
C30_ServersCheckedIsCumulative ==
    [][\A c \in Calls :
          (variant = "Mod" /\ Sole(c) /\ InFlight(c)
             /\ storage.searchProgress # Null /\ storage'.searchProgress # Null)
          => storage'.searchProgress[1].serversChecked
                >= storage.searchProgress[1].serversChecked]_vars

\* C27: when the presence lookup names the requested place and a gameId,
\* startSearch stores {found: true, gameId, searchType: 'presence'}, returns
\* it without asking for a page of servers or a batch of thumbnails, and
\* leaves isSearching false.
C27_PresenceHitShortCircuits ==
    [][\A c \in Calls :
          variant = "Mod" =>
             /\ (calls[c].pc = "a_presence" /\ calls'[c].response = "hit") =>
                   /\ calls'[c].pc = "a_storePresence"
                   /\ storage'.searchResult = Some(Found(PresenceGameId, "presence"))
                   /\ storage'.searchState = Null
             /\ (calls[c].pc = "a_storePresence" /\ calls'[c] # calls[c]) =>
                   /\ calls'[c].pc = "done"
                   /\ calls'[c].reply = "returned"
                   /\ calls'[c].sent = Some([success |-> TRUE,
                                             result |-> Found(PresenceGameId, "presence")])
                   /\ ~isSearching'
                   /\ requests' = requests]_vars

C27_Witness ==
    \E c \in Calls :
        /\ variant = "Mod" /\ Sole(c)
        /\ calls[c].pc = "done"
        /\ calls[c].sent = Some([success |-> TRUE,
                                 result |-> Found(PresenceGameId, "presence")])
        /\ storage.searchResult = Some(Found(PresenceGameId, "presence"))
        /\ ~isSearching
        /\ requests = {}

\* C25: when searchServers throws, startSearch stores the message of the
\* error as searchError and null as searchState, lets its caller see the
\* same error, and ends with the lock free and isSearching false; no
\* searchResult is stored for the search.
C25_ThrownErrorIsStoredAndRethrown ==
    [][\A c \in Calls :
          (calls[c].error # "" /\ calls'[c] # calls[c]) =>
             \/ /\ calls[c].pc # "a_storeError"
                /\ calls'[c].pc = "a_storeError"
                /\ calls'[c].error = calls[c].error
                /\ storage'.searchError = Some(calls[c].error)
                /\ storage'.searchState = Null
                /\ storage'.searchResult = Null
             \/ /\ calls[c].pc = "a_storeError"
                /\ calls'[c].pc = "done"
                /\ calls'[c].reply = "threw"
                /\ calls'[c].sent = Some([error |-> calls[c].error])
                /\ ~isSearching' /\ ~searchLock'
                /\ storage'.searchResult = Null]_vars

C25_Witness ==
    \E c \in Calls :
        /\ variant = "Mod"
        /\ calls[c].pc = "done" /\ calls[c].reply = "threw"
        /\ calls[c].sent = Some([error |-> "Too many consecutive errors"])
        /\ storage.searchError = Some("Too many consecutive errors")
        /\ storage.searchState = Null /\ storage.searchResult = Null
        /\ ~isSearching

\* C23: a search of src/background.js that was suspended in a sleep (the
\* cooldown between pages, the delay after an `errors` body, the delay before
\* a batch is retried) when resetSearchState was called sends no page fetch
\* and no batch request afterwards, and what searchServers returns is
\* {found: false, cancelled: true}.
C23_ResetDuringSleepEndsTheSearch ==
    [][\A c \in Calls :
          (variant = "Bg"
             /\ calls[c].cancelledAt \in {"a_cooldown", "a_errorsSleep", "a_retrySleep"})
          => /\ ~(~IsRequestPc(calls[c].pc) /\ IsRequestPc(calls'[c].pc))
             /\ calls'[c].pc = "ssReturn" => calls'[c].result = Some(Cancelled)]_vars

\* C21: a batch is requested at most 5 times when its requests fail
\* otherwise than by a rate limit: after the fifth such failure it is given
\* up and no further request for it is sent.
C21_BatchIsTriedAtMostFiveTimes ==
    \A c \in Calls :
        (InFlight(c) /\ calls[c].pc = "a_fetchBatch")
        => calls[c].batchFailures < MAX_CONSECUTIVE_ERRORS

\* C22: the resolver moves from a batch to the next one only after an answer
\* for it that is not a rate-limit answer: a batch answered 429, or with an
\* errors entry of code 0, is sent again and never skipped.
C22_RateLimitedBatchIsNotSkipped ==
    [][\A c \in Calls :
          (Undisturbed(c) /\ calls[c].allTokens # << >>
             /\ calls'[c].allTokens = calls[c].allTokens
             /\ calls'[c].i = calls[c].i + 1)
          => calls'[c].response \notin {"429", "ratelimit"}]_vars

\* C26: a search has an outstanding request only while it waits for a page
\* or a batch, one at a time; the units of every batch request are those of
\* the page listed last and of no other page; and the search leaves the
\* batches of a page for the next page fetch only when all of them were
\* answered or given up.
C26_OnePageAtATime ==
    [][\A c \in Calls :
          InFlight(c) =>
             LET data == PageData(PageOf(calls[c].cursor))
                 chunkedTokens == splitTokensIntoChunks(calls[c].allTokens, BATCH_SIZE)
             IN  /\ calls[c].signal # "none" => IsRequestPc(calls[c].pc)
                 /\ calls[c].pc = "a_fetchBatch" =>
                       /\ calls[c].allTokens = PageTokens(data, Len(data))
                       /\ calls[c].i < Len(chunkedTokens)
                 /\ calls[c].pc = "a_fetchPage" => calls[c].allTokens = << >>
                 /\ (Undisturbed(c) /\ calls[c].allTokens # << >>
                       /\ calls'[c].pc = "while")
                    => calls[c].i >= Len(chunkedTokens)]_vars

C26_Witness ==
    \E c \in Calls :
        /\ world = WorldTwoPages
        /\ Undisturbed(c)
        /\ calls[c].pc = "a_fetchBatch"
        /\ calls[c].cursor = 1
        /\ calls[c].allTokens = PageTokens(world[2], 2)
        /\ Len(calls[c].allTokens) = 3

\* C24: in the modular build, as long as every request is answered with a
\* success and nobody resets, an accepted startSearch returns in the end, with
\* a result that is found or not found; and searchServers holds 'not found'
\* only after it has processed the last page of the listing, the one without
\* a nextPageCursor.
C24_SearchEndsAfterTheLastPage ==
    /\ [](\A c \in Calls :
            (variant = "Mod" /\ calls[c].pc = "ssReturn" /\ resetsDone = 0
               /\ faultsLeft = limits.faults /\ calls[c].result = Some(NotFound))
            => (calls[c].page = Len(world) /\ NextPageCursor(calls[c].page) = 0))
    /\ (variant = "Mod" /\ \E c \in Calls : InFlight(c))
          ~> \/ resetsDone > 0
             \/ faultsLeft < limits.faults
             \/ \A c \in Calls :
                    calls[c].accepted =>
                       /\ calls[c].pc = "done" /\ calls[c].reply = "returned"
                       /\ "result" \in DOMAIN calls[c].sent[1]
                       /\ ~calls[c].sent[1].result.cancelled

C24_Witness ==
    \E c \in Calls :
        /\ variant = "Mod" /\ world = WorldNoMatch
        /\ resetsDone = 0 /\ faultsLeft = limits.faults
        /\ calls[c].pc = "done" /\ calls[c].reply = "returned"
        /\ calls[c].sent[1].result = [NotFound EXCEPT !.searchType = "advanced"]

\* C28: any two successive storage writes of searchProgress made by
\* updateProgress are more than 500 ms apart.
C28_ProgressWritesAreThrottled ==
    (progress # Null /\ progress.previous # Null)
    => progress.last[1] - progress.previous[1] > PROGRESS_THROTTLE

\* C31: before every page request but that of the first page the search waits
\* with the interval of the game's size, 5000 ms when serverSizeMoreThan5 and
\* 50 ms otherwise, and the request for the first page of a search that has
\* had no answer yet is sent without such a wait.
C31_PageFetchWaitsTheServerInterval ==
    [][\A c \in Calls :
          (calls'[c].pc = "a_fetchPage" /\ calls[c].pc # "a_fetchPage") =>
             IF calls'[c].cursor # 0
             THEN calls'[c].cooldownTime =
                     (IF serverSizeMoreThan5 THEN LARGE_SERVER ELSE SMALL_SERVER)
             ELSE (~calls'[c].pageFault
                     => calls[c].pc \notin {"a_cooldown", "a_waitServers"})]_vars

\* C32: a startSearch of the modular build that is called while every other
\* call has returned or is yet to come, and is accepted, starts with the
\* delay at its base, whatever the delay was when the search before it ended.
C32_SearchStartsAtBaseDelay ==
    [][\A c \in Calls :
          (/\ variant = "Mod"
           /\ calls[c].pc = "idle" /\ calls'[c].pc = "a_remove"
           /\ \A d \in Calls \ {c} : calls[d].pc \in {"idle", "done"})
          => currentDelay' = baseDelay]_vars

\* C36: resetSearchState called while no search is in flight changes nothing:
\* the controller is neither aborted nor replaced, isSearching, the lock, the
\* counters and searchId keep their values, nothing is written to storage
\* and no storage write is awaited.
C36_ResetWithoutSearchChangesNothing ==
    [][(resetsDone' # resetsDone /\ \A c \in Calls : ~InFlight(c))
          => UNCHANGED <<objVars, modVars, storage, calls, resetPending>>]_vars

\* resetSearchState was called although no startSearch had ever been.
C36_Witness ==
    resetsDone > 0 /\ \A c \in Calls : calls[c].pc = "idle"

\* C34: a search that resetSearchState has cancelled writes none of
\* searchResult, searchState and searchProgress any more: once the reset has
\* cleared them, no step of that search changes them.
C34_ResetSearchWritesNothing ==
    [][\A c \in Calls :
          (calls[c].cancelSignalled /\ calls'[c] # calls[c] /\ Sole(c))
          => /\ storage'.searchResult = storage.searchResult
             /\ storage'.searchState = storage.searchState
             /\ storage'.searchProgress = storage.searchProgress]_vars

C37_SweepRemovesOldKeysOnly ==
    [][rateLimiter # Null =>
        LET r == rateLimiter
            called == rateLimiter'.waits # r.waits
            swept == called /\ r.now - r.lastCleanup > CACHE_DURATION
            Old(k) == r.requests[k] # Null /\ r.now - r.requests[k][1] > CACHE_DURATION
            Granted(k) == /\ rateLimiter'.granted # r.granted
                          /\ rateLimiter'.granted[1].key = k
                          /\ rateLimiter'.requests[k] = Some(r.now)
        IN  /\ rateLimiter'.lastCleanup = IF swept THEN r.now ELSE r.lastCleanup
            /\ \A k \in RateKeys :
                  \/ Granted(k)
                  \/ rateLimiter'.requests[k] =
                        IF swept /\ Old(k) THEN Null ELSE r.requests[k]]_vars

\* A sweep has just removed the old time of 'servers' and left the younger
\* one of 'tokens', in a call that now waits for 'tokens'.
C37_Witness ==
    /\ rateLimiter # Null
    /\ rateLimiter.lastCleanup = rateLimiter.now
    /\ rateLimiter.lastCleanup > RateEpoch
    /\ rateLimiter.requests["servers"] = Null
    /\ rateLimiter.lastReturn["servers"] # Null
    /\ rateLimiter.requests["tokens"] # Null
    /\ rateLimiter.requests["tokens"][1] < rateLimiter.now

\* C38: a call of fetchWithRetry sends at most `retries` requests; it returns
\* on the first response that gives JSON and sends nothing after it; it
\* throws once `retries` attempts have failed, and then the error of the last
\* of them; it pauses only while attempts are left, and attempt i + 1 is sent
\* no sooner than 2^i seconds after attempt i has failed.
C38_RetriesAreBoundedAndSpaced ==
    [][api # Null =>
        LET l == api'.call
            tried == Len(l.outcomes)
        IN  /\ tried + (IF l.pc = "a_fetch" THEN 1 ELSE 0) <= l.retries
            /\ \A k \in 1..tried : l.outcomes[k] = "ok" <=> (l.pc = "returned" /\ k = tried)
            /\ l.pc = "returned" => tried > 0
            /\ l.pc = "threw" =>
                  /\ tried = l.retries
                  /\ tried > 0 => l.lastError = Some(l.outcomes[tried])
            /\ l.pc = "a_backoff" => tried < l.retries
            /\ (api.call.pc = "a_backoff" /\ l.pc = "a_fetch") =>
                  api.now - api.call.failedAt >= 2^(l.i - 1) * 1000]_vars

\* The default three attempts have failed, the first by the network, then
\* after one and after two seconds by the server's answer, which is thrown.
C38_Witness ==
    /\ api # Null
    /\ api.call.pc = "threw"
    /\ api.call.retries = MAX_RETRIES
    /\ api.call.outcomes = <<"network", "http", "http">>
    /\ api.call.lastError = Some("http")
    /\ api.now = api.call.failedAt

\* C39: every request of fetchWithRetry is sent with a signal that is not
\* aborted, also after an earlier attempt has failed or has been timed out
\* and in later calls on the same RobloxAPI.
C39_RequestsCarryALiveSignal ==
    [][(/\ api # Null
        /\ api'.call.pc = "a_fetch"
        /\ api'.call.timeoutId # api.call.timeoutId)
       => api'.call.signal \notin api'.aborted]_vars

\* C40: between two clearings (reset() or a 'Starting search #N' text)
\* addMessage returns true at most once for a messageId, however many
\* different ids arrive, and it returns false for every message that carries
\* a searchId other than currentSearchId.
C40_MessageIsLoggedOnce ==
    (messageHandler # Null /\ messageHandler.last # Null) =>
        LET last == messageHandler.last[1]
        IN  /\ ~last.again
            /\ (last.searchId # 0 /\ Some(last.searchId) # messageHandler.currentSearchId)
                  => ~last.returned

\* C33: when the popup shows 'Search timed out', no progress record had been
\* stored for 60 seconds, a record stored meanwhile having restarted the
\* count, and the popup has asked the background to cancel the search unless
\* that search had ended already.
C33_TimeoutCancelsTheSearch ==
    (watchdog # Null /\ watchdog.shown = "Search timed out") =>
        /\ watchdog.quiet >= PROGRESS_TIMEOUT
        /\ watchdog.cancelRequested \/ ~watchdog.running

====
